---------------------------- MODULE Spec2Model ----------------------------
(***************************************************************************)
(* Verification model of biodivine-lib-std: the lock-free reachability     *)
(* engine (src/src/reachability.rs), its two primitives                    *)
(* (src/src/parallel/lock_free_array.rs, src/src/lock_free_array_queue.rs),*)
(* the symbolic asynchronous graph of a Boolean network                    *)
(* (src/src/boolean_network/async_graph), the network builder and its      *)
(* parser (src/src/boolean_network/builder), the tokenizer and the token   *)
(* tree builder (src/src/parsers), and the collections Option<Set> and     *)
(* BitVector58 (src/src/collections).                                      *)
(*                                                                         *)
(* A symbolic parameter set (BddParams) is modelled by the set of          *)
(* parametrizations it contains: a reduced ordered BDD is canonical, so    *)
(* two BddParams are equal exactly when these sets are equal.              *)
(***************************************************************************)
EXTENDS Integers, Sequences, FiniteSets, TLC

VARIABLES
    paramset,       \* reachability: the ParamSet implementation P the engine is instantiated with
    graph,          \* reachability: the evolution operator, graph[s] = the edges step(s) yields
    initial,        \* reachability: the `initial` vector
    parallelism,    \* reachability: the `parallelism` argument
    items,          \* LockFreeArray.items (the cells)
    busy,           \* LockFreeArray.busy (one flag per cell)
    queue,          \* LockFreeArrayQueue.items (one bit per position)
    threads,        \* the spawned threads: id -> locals and position in the code
    main,           \* position of the thread that called the operation
    actual_result,  \* reachability: the returned vector (<<>> before the return)
    previous_result,\* the vector an earlier call on the same inputs returned (<<>> if none)
    counts,         \* queue test: per position, the calls that inserted and extracted it
    returned,       \* queue test: the calls that have returned, and the last of them
    network,        \* async graph: the BooleanNetwork given to BooleanAsyncGraph::new
    async_graph,    \* async graph: the Result of BooleanAsyncGraph::new
    iterators,      \* async graph: the edge iterators of fwd().step and bwd().step
    encoder,        \* BddParameterEncoder: the last call of one of its functions
    rg,             \* builder: the RegulatoryGraph (its regulations; the variables are fixed)
    bn,             \* builder: the BooleanNetwork made of rg (<<>> before BooleanNetwork::new)
    last_call,      \* builder: the last call of add_regulation or add_update_function
    parser,         \* update function parser: the last text parsed and the template
    option_set,     \* Set for Option<T>: the last operation, its operands and its answer
    token_tree_builder, \* TokenTreeBuilder: the tokens grouped and what both functions return
    tokenizer,      \* Tokenizer: the string read and what both functions return
    bv,             \* BitVector58: the 64 bits of the vector, and the last call on it
    matcher         \* RecursiveGroupTokenMatcher: its state and the tokens it matched

vars == <<paramset, graph, initial, parallelism, items, busy, queue, threads, main,
          actual_result, previous_result, counts, returned,
          network, async_graph, iterators, encoder,
          rg, bn, last_call, parser, option_set, token_tree_builder, tokenizer, bv,
          matcher>>

\* the variables of the network builder
builder_vars == <<rg, bn, last_call>>

\* the variables of the builder, the parsers and the collections
later_vars ==
    <<builder_vars, parser, option_set, token_tree_builder, tokenizer, bv, matcher>>

\* the variables of the asynchronous graph
graph_vars == <<network, async_graph, iterators>>

\* the variables of the other components, which reachability does not use
not_reach == <<counts, returned, graph_vars, encoder, later_vars>>

\* the variables no step of reachability changes
reach_inputs == <<paramset, graph, initial, parallelism, previous_result, not_reach>>

\* the variables of the reachability engine alone
reach_vars == <<paramset, graph, initial, parallelism, actual_result, previous_result>>

\* the variables the LockFreeArray test does not use
not_array == <<reach_vars, queue, counts, returned, graph_vars, encoder, later_vars>>

\* the variables the LockFreeArrayQueue test does not use
not_queue == <<reach_vars, items, busy, graph_vars, encoder, later_vars>>

\* the variables the calls of the encoder do not change
not_encoder == <<reach_vars, items, busy, queue, threads, main, counts, returned,
                 graph_vars, later_vars>>

\* the variables the asynchronous graph does not use
not_graph == <<reach_vars, items, busy, queue, threads, main, counts, returned,
               encoder, later_vars>>

\* the variables of the engine, its primitives, the asynchronous graph and the encoder
earlier_vars == <<reach_vars, items, busy, queue, threads, main, counts, returned,
                  graph_vars, encoder>>

\* the variables the builder does not use
not_builder ==
    <<earlier_vars, parser, option_set, token_tree_builder, tokenizer, bv, matcher>>

----------------------------------------------------------------------------
(* Bounds of the model *)

\* number of variables of the networks whose graphs the engine is run on: the
\* repository's test networks have the two variables a and b (2^NumVars states)
NumVars == 2
\* number of parametrizations in the universe the labels are drawn from
NumParams == 2
\* largest worker count `parallelism`
MaxWorkers == 2
\* LockFreeArray test: number of contending threads (the test spawns 10)
ArrayThreads == 3
\* LockFreeArray test: successful updates each thread counts to (the test counts to 10000)
ArrayTarget == 2
\* LockFreeArrayQueue test: capacity of the queue (the tests use 10)
QueueCapacity == 3
\* LockFreeArrayQueue test: number of threads calling set and next (the test spawns 10)
QueueThreads == 2
\* LockFreeArrayQueue test: calls of set and next the threads make in total
MaxCalls == 5
\* BddParameterEncoder: longest list of arguments given to compute_table_index
MaxArgs == 2

\* RegulatoryGraph alone: the regulations a graph is given at most
MaxRegulations == 2
\* the regulations of a graph that is made into a BooleanNetwork, at most
MaxNetworkRegulations == 1

\* the largest element of the explicit sets
MaxElement == 2

\* the tokens of a sequence that is grouped, at most
MaxTokens == 4

\* the characters of a string that is tokenized, at most
MaxCharacters == 4

\* the calls of scan_token on one state of a matcher, at most
MaxScans == 4

\* the characters of a string given to scan_token, at most
MaxData == 3

----------------------------------------------------------------------------
(* Constants of the tests *)

\* multi_thread_update_with_contention: `LockFreeArray::new(10, 0 as usize)`
ArrayCapacity == 10
\* multi_thread_update_with_contention: `array.update(3, ..)`
ArrayPosition == 3

----------------------------------------------------------------------------
(* StateId: src/src/graph.rs *)

RECURSIVE Pow2(_)
Pow2(k) == IF k = 0 THEN 1 ELSE 2 * Pow2(k - 1)

is_set(state, var) == (state \div Pow2(var)) % 2 = 1

\* mutant: the bit is set instead of flipped (| for ^)
flip_bit_or(state, var) == IF is_set(state, var) THEN state ELSE state + Pow2(var)

flip_bit(state, var) ==
    IF is_set(state, var) THEN state - Pow2(var) ELSE state + Pow2(var)

----------------------------------------------------------------------------
(* ParamSet: src/src/parameters.rs, and its implementation for BddParams:  *)
(* src/src/boolean_network/bdd_params/mod.rs                               *)

\* Bdd::is_false of the BDD library: the BDD is the constant false
is_false(bdd) == bdd = {}

union(a, b) == a \cup b

intersect(a, b) == a \cap b

minus(a, b) == a \ b

\* BddParams::is_empty, as written: `return !self.bdd.is_false();`
BddParams_is_empty(a) == ~is_false(a)

\* BddParams::is_subset_of: `return self.minus(other).is_empty();`
BddParams_is_subset_of(a, b) == BddParams_is_empty(minus(a, b))

\* P::is_empty for the engine's type parameter P: BddParams (the implementation
\* this repository has), or an implementation that keeps the trait's contract
is_empty(P, a) == IF P = "BddParams" THEN BddParams_is_empty(a) ELSE a = {}

\* P::is_subset_of for the engine's type parameter P
is_subset_of(P, a, b) ==
    IF P = "BddParams" THEN BddParams_is_subset_of(a, b) ELSE a \subseteq b

----------------------------------------------------------------------------
(* Inputs of reachability(graph, initial, parallelism, empty)              *)

Params == 1 .. NumParams

Vars == 0 .. (NumVars - 1)

States == 0 .. (Pow2(NumVars) - 1)

\* initial.len(): the capacity of the label array and of the queue
Capacity == Pow2(NumVars)

\* the `empty` argument: the empty parameter set
Empty == {}

\* ParamSet implementations the type parameter P ranges over
ParamSets == {"BddParams", "Contract"}

\* edge labellings of the graphs the engine is run on: every flip enabled for all
\* parametrizations; only 0 -> 1 flips enabled; an edge 0 -> 1 for parametrization 1,
\* 3 -> 1 for all, 1 -> 0 for all but 1
EdgeLabel(kind, s, v) ==
    CASE kind = "full" -> Params
      [] kind = "up" -> IF is_set(s, v) THEN {} ELSE Params
      [] kind = "race" ->
            IF s = 0 /\ v = 0 THEN {1}
            ELSE IF s = 3 /\ v = 1 THEN Params
            ELSE IF s = 1 /\ v = 0 THEN Params \ {1}
            ELSE {}

GraphKinds == {"full", "up", "race"}

\* EvolutionOperator::step on an asynchronous graph: one edge per variable, in
\* ascending variable order, to the state with that variable flipped
Step(kind, s) ==
    [k \in 1 .. NumVars |-> <<flip_bit(s, k - 1), EdgeLabel(kind, s, k - 1)>>]

Graphs == {[s \in States |-> Step(kind, s)] : kind \in GraphKinds}

InitialVectors ==
    { [s \in States |-> IF s = 0 THEN Params ELSE {}],
      [s \in States |-> IF s = 0 THEN {1} ELSE IF s = 3 THEN Params ELSE {}] }

----------------------------------------------------------------------------
(* LockFreeArrayQueue: src/src/lock_free_array_queue.rs *)

\* no network is being built
builder_unused ==
    /\ rg = <<>>
    /\ bn = <<>>
    /\ last_call = <<>>

\* neither the builder, nor the parsers, nor the collections are used
later_unused ==
    /\ builder_unused
    /\ parser = <<>>
    /\ option_set = <<>>
    /\ token_tree_builder = <<>>
    /\ tokenizer = <<>>
    /\ bv = <<>>
    /\ matcher = <<>>

\* no asynchronous graph is built
graph_unused ==
    /\ network = <<>>
    /\ async_graph = <<>>
    /\ iterators = <<>>

\* mutant: the swap stores false
swap_false(q, position) ==
    [items |-> [q EXCEPT ![position] = FALSE], previous |-> q[position]]

\* AtomicBool::swap(true): the new array and the previous value
swap_true(q, position) ==
    [items |-> [q EXCEPT ![position] = TRUE], previous |-> q[position]]

\* mutant: the previous value is returned without the negation
queue_set_previous(q, position) ==
    [items |-> swap_true(q, position).items,
     result |-> swap_true(q, position).previous]

\* LockFreeArrayQueue::set: `!item.swap(true)`
queue_set(q, position) ==
    [items |-> swap_true(q, position).items,
     result |-> ~swap_true(q, position).previous]

\* one iteration of the loop of LockFreeArrayQueue::next:
\* `item.compare_and_swap(true, false) == true`
queue_next_cas(q, i) ==
    [items |-> IF q[i] THEN [q EXCEPT ![i] = FALSE] ELSE q, found |-> q[i]]

\* mutant: the scan ignores starting_at
queue_next_first_zero(starting_at) == 0

\* LockFreeArrayQueue::next: the first index of `starting_at..self.items.len()`
queue_next_first(starting_at) == starting_at

----------------------------------------------------------------------------
(* LockFreeArray: src/src/parallel/lock_free_array.rs *)

\* mutant: the flag is stored without being tested
lock_store_true(b, position) ==
    [busy |-> [b EXCEPT ![position] = TRUE], acquired |-> TRUE]

\* LockFreeArray::update, line 39: `lock.compare_and_swap(false, true) == false`
lock_compare_and_swap(b, position) ==
    [busy |-> [b EXCEPT ![position] = TRUE], acquired |-> b[position] = FALSE]

\* mutant: the flag is left set
lock_release_never(b, position) == b

\* LockFreeArray::update, line 43: `lock.store(false)`
lock_release(b, position) == [b EXCEPT ![position] = FALSE]

----------------------------------------------------------------------------
(* The reachability engine: src/src/reachability.rs *)

\* a worker between two statements, with the locals of the closure it runs
Worker(pc, wip, next_state, i, next, edge, transfer, is_new) ==
    [pc |-> pc, work_in_progress |-> wip, next_state |-> next_state, i |-> i,
     next |-> next, edge |-> edge, transfer_params |-> transfer, is_new |-> is_new]

\* `while work_in_progress { work_in_progress = false; let mut next_state = 0;`
\* and the first call queue.next(0), up to its first atomic access
LoopHead(r) ==
    IF r.work_in_progress
    THEN Worker("queue_next", FALSE, 0, 0, 0, 0, {}, FALSE)
    ELSE Worker("exit", FALSE, 0, 0, 0, 0, {}, FALSE)

\* mutant: the inner loop ends after the first polled state
PollFrom_once(r) == LoopHead(r)

\* `while let Some(next) = queue.next(next_state)`: the call, up to its first
\* atomic access; an empty range returns None and ends the inner loop
PollFrom(r) ==
    IF r.next_state >= Capacity
    THEN LoopHead(r)
    ELSE Worker("queue_next", r.work_in_progress, r.next_state, r.next_state, 0, 0, {}, FALSE)

\* the end of one iteration of `for (successor, edge_params) in graph.step(next)`
NextEdge(r) ==
    IF r.edge < Len(graph[r.next])
    THEN Worker("get_next", r.work_in_progress, r.next_state, 0, r.next, r.edge + 1, {}, FALSE)
    ELSE PollFrom(r)

successor(r) == graph[r.next][r.edge][1]

edge_params(r) == graph[r.next][r.edge][2]

\* lines 13-14: the array and the queue as constructed
InitReach ==
    /\ later_unused
    /\ paramset \in ParamSets
    /\ graph \in Graphs
    /\ initial \in InitialVectors
    /\ parallelism \in 1 .. MaxWorkers
    /\ items = [s \in States |-> Empty]
    /\ busy = [s \in States |-> FALSE]
    /\ queue = [s \in States |-> FALSE]
    /\ threads = <<>>
    /\ main = "init"
    /\ actual_result = <<>>
    /\ previous_result = <<>>
    /\ counts = <<>>
    /\ returned = <<>>
    /\ encoder = <<>>
    /\ graph_unused

\* lines 15-22, run by the calling thread before any worker exists
Initialize ==
    /\ main = "init"
    /\ queue' = [s \in States |-> ~is_empty(paramset, initial[s])]
    /\ items' = [s \in States |->
                    IF ~is_empty(paramset, initial[s]) THEN initial[s] ELSE items[s]]
    /\ main' = "spawn"
    /\ UNCHANGED <<reach_inputs, busy, threads, actual_result>>

\* lines 24-26: `s.spawn(..)`; the new worker starts with work_in_progress = true
Spawn ==
    /\ main = "spawn"
    /\ Len(threads) < parallelism
    /\ threads' = Append(threads, LoopHead(Worker("start", TRUE, 0, 0, 0, 0, {}, FALSE)))
    /\ UNCHANGED <<reach_inputs, items, busy, queue, main, actual_result>>

\* line 30, LockFreeArrayQueue::next: one compare_and_swap of the scan
QueueNext(w) ==
    LET r == threads[w]
        cas == queue_next_cas(queue, r.i)
    IN  /\ w \in DOMAIN threads
        /\ r.pc = "queue_next"
        /\ queue' = cas.items
        /\ threads' = [threads EXCEPT ![w] =
              IF cas.found
              THEN NextEdge(Worker("found", r.work_in_progress, r.i + 1, 0, r.i, 0, {}, FALSE))
              ELSE IF r.i + 1 < Capacity
                   THEN [r EXCEPT !.i = r.i + 1]
                   ELSE LoopHead(r)]
        /\ UNCHANGED <<reach_inputs, items, busy, main, actual_result>>

\* line 33: `result.get(next).intersect(&edge_params)`, an unsynchronised read
GetNext(w) ==
    LET r == threads[w]
    IN  /\ w \in DOMAIN threads
        /\ r.pc = "get_next"
        /\ threads' = [threads EXCEPT ![w] =
              [r EXCEPT !.pc = "get_successor",
                        !.transfer_params = intersect(items[r.next], edge_params(r))]]
        /\ UNCHANGED <<reach_inputs, items, busy, queue, main, actual_result>>

\* lines 34-37: `transfer_params.is_subset_of(result.get(successor))`, an
\* unsynchronised read; `continue` when it holds
GetSuccessor(w) ==
    LET r == threads[w]
    IN  /\ w \in DOMAIN threads
        /\ r.pc = "get_successor"
        /\ threads' = [threads EXCEPT ![w] =
              IF is_subset_of(paramset, r.transfer_params, items[successor(r)])
              THEN NextEdge(r)
              ELSE [r EXCEPT !.pc = "update"]]
        /\ UNCHANGED <<reach_inputs, items, busy, queue, main, actual_result>>

\* LockFreeArray::update, line 39, called from line 38
UpdateCas(w) ==
    LET r == threads[w]
        cas == lock_compare_and_swap(busy, successor(r))
    IN  /\ w \in DOMAIN threads
        /\ r.pc = "update"
        /\ busy' = cas.busy
        /\ threads' = [threads EXCEPT ![w] =
              [r EXCEPT !.pc = IF cas.acquired THEN "closure" ELSE "busy"]]
        /\ UNCHANGED <<reach_inputs, items, queue, main, actual_result>>

\* mutant: the closure overwrites the cell with the transferred set
closure_new_value_overwrite(value, transfer) == transfer

\* the closure of lines 38-43: `value.union(&transfer_params)`
closure_new_value(value, transfer) == union(value, transfer)

\* the closure of lines 38-43: `let is_new = new_value.is_subset_of(value);`
closure_is_new(P, new_value, value) == is_subset_of(P, new_value, value)

\* LockFreeArray::update, lines 41-42: the closure runs on the acquired cell
UpdateClosure(w) ==
    LET r == threads[w]
        value == items[successor(r)]
        new_value == closure_new_value(value, r.transfer_params)
    IN  /\ w \in DOMAIN threads
        /\ r.pc = "closure"
        /\ items' = [items EXCEPT ![successor(r)] = new_value]
        /\ threads' = [threads EXCEPT ![w] =
              [r EXCEPT !.pc = "release",
                        !.is_new = closure_is_new(paramset, new_value, value)]]
        /\ UNCHANGED <<reach_inputs, busy, queue, main, actual_result>>

\* LockFreeArray::update, lines 43-44: `lock.store(false)`, then Some(result);
\* Some(false) goes on with the next edge
UpdateRelease(w) ==
    LET r == threads[w]
    IN  /\ w \in DOMAIN threads
        /\ r.pc = "release"
        /\ busy' = lock_release(busy, successor(r))
        /\ threads' = [threads EXCEPT ![w] =
              IF r.is_new THEN [r EXCEPT !.pc = "changed"] ELSE NextEdge(r)]
        /\ UNCHANGED <<reach_inputs, items, queue, main, actual_result>>

\* lines 45-49, update returned None: `queue.set(next); work_in_progress = true;`
SetNext(w) ==
    LET r == threads[w]
    IN  /\ w \in DOMAIN threads
        /\ r.pc = "busy"
        /\ queue' = queue_set(queue, r.next).items
        /\ threads' = [threads EXCEPT ![w] = NextEdge([r EXCEPT !.work_in_progress = TRUE])]
        /\ UNCHANGED <<reach_inputs, items, busy, main, actual_result>>

\* lines 53-57, update returned Some(true): `queue.set(successor); work_in_progress = true;`
SetSuccessor(w) ==
    LET r == threads[w]
    IN  /\ w \in DOMAIN threads
        /\ r.pc = "changed"
        /\ queue' = queue_set(queue, successor(r)).items
        /\ threads' = [threads EXCEPT ![w] = NextEdge([r EXCEPT !.work_in_progress = TRUE])]
        /\ UNCHANGED <<reach_inputs, items, busy, main, actual_result>>

\* lines 64-70: the scope joins the workers, the cells are copied and returned
Return ==
    /\ main = "spawn"
    /\ Len(threads) = parallelism
    /\ \A w \in DOMAIN threads : threads[w].pc = "exit"
    /\ actual_result' = items
    /\ main' = "returned"
    /\ UNCHANGED <<reach_inputs, items, busy, queue, threads>>

WorkerStep(w) ==
    \/ QueueNext(w)
    \/ GetNext(w)
    \/ GetSuccessor(w)
    \/ UpdateCas(w)
    \/ UpdateClosure(w)
    \/ UpdateRelease(w)
    \/ SetNext(w)
    \/ SetSuccessor(w)

NextReach ==
    \/ Initialize
    \/ Spawn
    \/ Return
    \/ \E w \in 1 .. MaxWorkers : WorkerStep(w)

Spec == InitReach /\ [][NextReach]_vars

\* the workers are operating-system threads and the caller waits in the scope's
\* join: every thread that can take a step eventually takes one
Fairness ==
    /\ WF_vars(Initialize \/ Spawn \/ Return)
    /\ \A w \in 1 .. MaxWorkers : WF_vars(WorkerStep(w))

FairSpec == Spec /\ Fairness

\* a caller that runs reachability a second time on the same graph and initial
\* vector, with any worker count, keeping the first result to compare
RunAgain ==
    /\ main = "returned"
    /\ previous_result = <<>>
    /\ previous_result' = actual_result
    /\ parallelism' \in 1 .. MaxWorkers
    /\ items' = [s \in States |-> Empty]
    /\ busy' = [s \in States |-> FALSE]
    /\ queue' = [s \in States |-> FALSE]
    /\ threads' = <<>>
    /\ main' = "init"
    /\ actual_result' = <<>>
    /\ UNCHANGED <<paramset, graph, initial, not_reach>>

NextTwice == NextReach \/ RunAgain

SpecTwice == InitReach /\ [][NextTwice]_vars

----------------------------------------------------------------------------
(* LockFreeArray under contention:                                         *)
(* src/src/parallel/lock_free_array.rs, multi_thread_update_with_contention *)

\* the variables of the reachability engine, which the tests do not use
reach_unused ==
    /\ paramset = "none"
    /\ graph = <<>>
    /\ initial = <<>>
    /\ parallelism = 0
    /\ actual_result = <<>>
    /\ previous_result = <<>>

\* neither the engine, nor its primitives, nor the graph, nor the encoder are used
earlier_unused ==
    /\ reach_unused
    /\ graph_unused
    /\ items = <<>>
    /\ busy = <<>>
    /\ queue = <<>>
    /\ threads = <<>>
    /\ main = "none"
    /\ counts = <<>>
    /\ returned = <<>>
    /\ encoder = <<>>

\* lines 131-137: the array of zeros, every thread spawned with `count = 0`
InitArray ==
    /\ later_unused
    /\ reach_unused
    /\ items = [i \in 0 .. (ArrayCapacity - 1) |-> 0]
    /\ busy = [i \in 0 .. (ArrayCapacity - 1) |-> FALSE]
    /\ queue = <<>>
    /\ counts = <<>>
    /\ returned = <<>>
    /\ encoder = <<>>
    /\ graph_unused
    /\ threads = [t \in 1 .. ArrayThreads |->
                     [pc |-> "update", count |-> 0, val |-> 0, update |-> "none"]]
    /\ main = "join"

\* line 138, LockFreeArray::update line 39: the compare_and_swap; when it fails
\* update returns None and the loop of line 137 calls update again
ArrayUpdateCas(t) ==
    LET r == threads[t]
        cas == lock_compare_and_swap(busy, ArrayPosition)
    IN  /\ r.pc = "update"
        /\ busy' = cas.busy
        /\ threads' = [threads EXCEPT ![t] =
              IF cas.acquired
              THEN [r EXCEPT !.pc = "closure_read"]
              ELSE [r EXCEPT !.update = "None"]]
        /\ UNCHANGED <<not_array, items, main>>

\* the closure `|val| *val = *val + 1` on the acquired cell: the load of *val
ArrayClosureRead(t) ==
    LET r == threads[t]
    IN  /\ r.pc = "closure_read"
        /\ threads' = [threads EXCEPT ![t] =
              [r EXCEPT !.pc = "closure_write", !.val = items[ArrayPosition]]]
        /\ UNCHANGED <<not_array, items, busy, main>>

\* the closure `|val| *val = *val + 1` on the acquired cell: the store to *val
ArrayClosureWrite(t) ==
    LET r == threads[t]
    IN  /\ r.pc = "closure_write"
        /\ items' = [items EXCEPT ![ArrayPosition] = r.val + 1]
        /\ threads' = [threads EXCEPT ![t] = [r EXCEPT !.pc = "release", !.val = 0]]
        /\ UNCHANGED <<not_array, busy, main>>

\* LockFreeArray::update lines 43-44, then lines 139-141: `Some(())`, `count += 1`
\* and the test `count < 10_000`
ArrayRelease(t) ==
    LET r == threads[t]
    IN  /\ r.pc = "release"
        /\ busy' = lock_release(busy, ArrayPosition)
        /\ threads' = [threads EXCEPT ![t] =
              [r EXCEPT !.pc = IF r.count + 1 < ArrayTarget THEN "update" ELSE "exit",
                        !.count = r.count + 1,
                        !.update = "Some"]]
        /\ UNCHANGED <<not_array, items, main>>

\* lines 145-147: the scope joins the threads, then the assertion reads the cell
ArrayJoin ==
    /\ main = "join"
    /\ \A t \in DOMAIN threads : threads[t].pc = "exit"
    /\ main' = "joined"
    /\ UNCHANGED <<not_array, items, busy, threads>>

NextArray ==
    \/ \E t \in 1 .. ArrayThreads :
          \/ ArrayUpdateCas(t)
          \/ ArrayClosureRead(t)
          \/ ArrayClosureWrite(t)
          \/ ArrayRelease(t)
    \/ ArrayJoin

SpecArray == InitArray /\ [][NextArray]_vars

----------------------------------------------------------------------------
(* LockFreeArrayQueue under concurrent set and next calls:                 *)
(* src/src/lock_free_array_queue.rs, single_thread_test, multi_thread_test *)

Positions == 0 .. (QueueCapacity - 1)

\* Option<usize>
None == [some |-> FALSE, index |-> 0]

Some(i) == [some |-> TRUE, index |-> i]

\* a thread between two calls
Idle == [pc |-> "idle", i |-> 0, starting_at |-> 0, before |-> <<>>, interfered |-> FALSE]

\* a step of thread t overlaps every call of next that is in progress
Overlap(ths, t) ==
    [u \in DOMAIN ths |->
        IF u # t /\ ths[u].pc = "scan"
        THEN [ths[u] EXCEPT !.interfered = TRUE, !.before = <<>>] ELSE ths[u]]

Scanning(t) == {u \in DOMAIN threads : u # t /\ threads[u].pc = "scan"}

\* thread t returns result from the call op(arg); interfered: another call overlapped it
Return_from(t, op, arg, result, interfered) ==
    [calls |-> returned.calls + 1, thread |-> t, op |-> op, arg |-> arg,
     result |-> result, interfered |-> interfered]

\* a thread may begin a call
MayCall(t) ==
    /\ threads[t].pc = "idle"
    /\ returned.calls + Cardinality(Scanning(t)) < MaxCalls

\* the counters of multi_thread_test, taken at the atomic access of the call, and
\* per position the calls of set since it was last extracted
CountSet(c, position, result) ==
    [c EXCEPT ![position] =
        [@ EXCEPT !.inserted = IF result THEN @ + 1 ELSE @,
                  !.set_calls = @ + 1,
                  !.set_true = IF result THEN @ + 1 ELSE @]]

CountNext(c, position) ==
    [c EXCEPT ![position] =
        [@ EXCEPT !.extracted = @ + 1, !.set_calls = 0, !.set_true = 0]]

\* LockFreeArrayQueue::new: every bit false; the threads are spawned
InitQueue ==
    /\ later_unused
    /\ reach_unused
    /\ items = <<>>
    /\ busy = <<>>
    /\ graph_unused
    /\ encoder = <<>>
    /\ queue = [i \in Positions |-> FALSE]
    /\ counts = [i \in Positions |->
                    [inserted |-> 0, extracted |-> 0, set_calls |-> 0, set_true |-> 0]]
    /\ returned = [calls |-> 0, thread |-> 0, op |-> "none", arg |-> 0,
                   result |-> None, interfered |-> FALSE]
    /\ threads = [t \in 1 .. QueueThreads |-> Idle]
    /\ main = "join"

\* a call queue.set(position)
QueueSet(t, position) ==
    LET res == queue_set(queue, position)
    IN  /\ MayCall(t)
        /\ queue' = res.items
        /\ counts' = CountSet(counts, position, res.result)
        /\ threads' = Overlap(threads, t)
        /\ returned' = Return_from(t, "set", position,
                                   [some |-> res.result, index |-> position],
                                   Scanning(t) # {})
        /\ UNCHANGED <<not_queue, main>>

\* the compare_and_swap of index i in the call next(starting_at) of thread t, which
\* began when the bits were `before`
QueueNextCas(t, starting_at, i, before, interfered) ==
    LET cas == queue_next_cas(queue, i)
    IN  /\ queue' = cas.items
        /\ counts' = IF cas.found THEN CountNext(counts, i) ELSE counts
        /\ IF cas.found
           THEN /\ threads' = [Overlap(threads, t) EXCEPT ![t] = Idle]
                /\ returned' = Return_from(t, "next", starting_at, Some(i), interfered)
           ELSE IF i + 1 < QueueCapacity
           THEN /\ threads' = [Overlap(threads, t) EXCEPT ![t] =
                      [pc |-> "scan", i |-> i + 1, starting_at |-> starting_at,
                       before |-> IF interfered THEN <<>> ELSE before,
                       interfered |-> interfered]]
                /\ returned' = returned
           ELSE /\ threads' = [Overlap(threads, t) EXCEPT ![t] = Idle]
                /\ returned' = Return_from(t, "next", starting_at, None, interfered)

\* a call queue.next(starting_at), up to its first compare_and_swap; an empty
\* range returns None
QueueNextCall(t, starting_at) ==
    LET first == queue_next_first(starting_at)
    IN  /\ MayCall(t)
        /\ IF first >= QueueCapacity
           THEN /\ queue' = queue
                /\ counts' = counts
                /\ threads' = threads
                /\ returned' = Return_from(t, "next", starting_at, None, Scanning(t) # {})
           ELSE QueueNextCas(t, starting_at, first, queue, Scanning(t) # {})
        /\ UNCHANGED <<not_queue, main>>

\* the next compare_and_swap of a call of next in progress
QueueNextScan(t) ==
    LET r == threads[t]
    IN  /\ r.pc = "scan"
        /\ QueueNextCas(t, r.starting_at, r.i, r.before, r.interfered \/ Scanning(t) # {})
        /\ UNCHANGED <<not_queue, main>>

\* the scope joins the threads
QueueJoin ==
    /\ main = "join"
    /\ \A t \in DOMAIN threads : threads[t].pc = "idle"
    /\ returned.calls = MaxCalls
    /\ main' = "joined"
    /\ UNCHANGED <<not_queue, queue, counts, threads, returned>>

NextQueue ==
    \/ \E t \in 1 .. QueueThreads, position \in Positions : QueueSet(t, position)
    \/ \E t \in 1 .. QueueThreads, starting_at \in 0 .. QueueCapacity :
          QueueNextCall(t, starting_at)
    \/ \E t \in 1 .. QueueThreads : QueueNextScan(t)
    \/ QueueJoin

SpecQueue == InitQueue /\ [][NextQueue]_vars

----------------------------------------------------------------------------
(* BooleanAsyncGraph: src/src/boolean_network/async_graph *)

\* UpdateFunction
NoFunction == [op |-> "None"]

Variable(id) == [op |-> "Variable", id |-> id]

Parameter(id, inputs) == [op |-> "Parameter", id |-> id, inputs |-> inputs]

Not(a) == [op |-> "Not", a |-> a]

And(a, b) == [op |-> "And", a |-> a, b |-> b]

Or(a, b) == [op |-> "Or", a |-> a, b |-> b]

Imp(a, b) == [op |-> "Imp", a |-> a, b |-> b]

Regulation(source, target, observable, effect) ==
    [source |-> source, target |-> target, observable |-> observable, effect |-> effect]

\* BooleanNetwork: parameters[p] is the cardinality of parameter p - 1,
\* update_functions[v + 1] the function of variable v
BooleanNetwork(regulations, parameters, update_functions) ==
    [num_vars |-> NumVars, regulations |-> regulations, parameters |-> parameters,
     update_functions |-> update_functions]

\* test_no_param_network: a -> b, a -> a, b -| a, b -| b, $a: a & !b, $b: a | !b
no_param_network ==
    BooleanNetwork(
        <<Regulation(0, 1, TRUE, "ACTIVATION"), Regulation(0, 0, TRUE, "ACTIVATION"),
          Regulation(1, 0, TRUE, "INHIBITION"), Regulation(1, 1, TRUE, "INHIBITION")>>,
        <<>>,
        <<And(Variable(0), Not(Variable(1))), Or(Variable(0), Not(Variable(1)))>>)

\* test_anonymous_param_network: a ->? b, a -> a, b -|? a, b -| b
anonymous_param_network ==
    BooleanNetwork(
        <<Regulation(0, 1, FALSE, "ACTIVATION"), Regulation(0, 0, TRUE, "ACTIVATION"),
          Regulation(1, 0, FALSE, "INHIBITION"), Regulation(1, 1, TRUE, "INHIBITION")>>,
        <<>>,
        <<NoFunction, NoFunction>>)

\* a -> b, a -| a, $a: a: no function of a is decreasing in a; b is anonymous
contradictory_anonymous_network ==
    BooleanNetwork(
        <<Regulation(0, 1, TRUE, "ACTIVATION"), Regulation(0, 0, TRUE, "INHIBITION")>>,
        <<>>,
        <<Variable(0), NoFunction>>)

\* a ->? b, a -| a, $a: a, $b: p(a) => a
contradictory_parameter_network ==
    BooleanNetwork(
        <<Regulation(0, 1, FALSE, "None"), Regulation(0, 0, TRUE, "INHIBITION")>>,
        <<1>>,
        <<Variable(0), Imp(Parameter(0, <<0>>), Variable(0))>>)

\* a -?? b, b -| b, $a: !(p | !p), $b: b
contradictory_constant_network ==
    BooleanNetwork(
        <<Regulation(0, 1, FALSE, "None"), Regulation(1, 1, FALSE, "INHIBITION")>>,
        <<0>>,
        <<Not(Or(Parameter(0, <<>>), Not(Parameter(0, <<>>)))), Variable(1)>>)

\* a -> b, $b: !a: the function of b is decreasing in a; a is anonymous
monotonicity_ruled_out_network ==
    BooleanNetwork(<<Regulation(0, 1, TRUE, "ACTIVATION")>>, <<>>,
                   <<NoFunction, Not(Variable(0))>>)

\* a -> b, $b: a & !a: the function of b does not depend on a
unobservable_network ==
    BooleanNetwork(<<Regulation(0, 1, TRUE, "ACTIVATION")>>, <<>>,
                   <<NoFunction, And(Variable(0), Not(Variable(0)))>>)

\* explicit_parameter_encoder_test: a -> b, a -| a, b -> a, $a: p(a,b) => q(b),
\* $b: q(a), with p the parameter 0 and q the parameter 1
explicit_parameter_network ==
    BooleanNetwork(
        <<Regulation(0, 1, TRUE, "ACTIVATION"), Regulation(0, 0, TRUE, "INHIBITION"),
          Regulation(1, 0, TRUE, "ACTIVATION")>>,
        <<2, 1>>,
        <<Imp(Parameter(0, <<0, 1>>), Parameter(1, <<1>>)), Parameter(1, <<0>>)>>)

\* anonymous_parameter_encoder_test: a -> b, a -| a, b -> a
anonymous_parameter_network ==
    BooleanNetwork(
        <<Regulation(0, 1, TRUE, "ACTIVATION"), Regulation(0, 0, TRUE, "INHIBITION"),
          Regulation(1, 0, TRUE, "ACTIVATION")>>,
        <<>>,
        <<NoFunction, NoFunction>>)

\* mixed_parameter_encoder_test: a -> b, a -| a, b -> a, $a: b & p(a, b)
mixed_parameter_network ==
    BooleanNetwork(
        <<Regulation(0, 1, TRUE, "ACTIVATION"), Regulation(0, 0, TRUE, "INHIBITION"),
          Regulation(1, 0, TRUE, "ACTIVATION")>>,
        <<2>>,
        <<And(Variable(1), Parameter(0, <<0, 1>>)), NoFunction>>)

\* a -?? b, b -> a: any function of a is admitted for b
unconstrained_network ==
    BooleanNetwork(
        <<Regulation(0, 1, FALSE, "None"), Regulation(1, 0, TRUE, "ACTIVATION")>>,
        <<>>,
        <<NoFunction, NoFunction>>)

Networks ==
    {no_param_network, anonymous_param_network, contradictory_anonymous_network,
     contradictory_parameter_network, contradictory_constant_network,
     monotonicity_ruled_out_network, unobservable_network, explicit_parameter_network,
     anonymous_parameter_network, mixed_parameter_network, unconstrained_network}

\* RegulatoryGraph::get_regulators: the sources of the regulations of target,
\* in the order of the variables
RECURSIVE regulators_from(_, _, _)
regulators_from(n, target, v) ==
    IF v >= n.num_vars THEN <<>>
    ELSE (IF \E k \in DOMAIN n.regulations :
                n.regulations[k].source = v /\ n.regulations[k].target = target
          THEN <<v>> ELSE <<>>) \o regulators_from(n, target, v + 1)

get_regulators(n, target) == regulators_from(n, target, 0)

num_regulators(n, variable) == Len(get_regulators(n, variable))

\* BddParameterEncoder::new: the BDD variables made before those of parameter p
RECURSIVE parameter_bdd_variables(_, _)
parameter_bdd_variables(n, p) ==
    IF p = 0 THEN 0 ELSE parameter_bdd_variables(n, p - 1) + Pow2(n.parameters[p])

\* BddParameterEncoder::new: the BDD variables made before those of the anonymous
\* parameter of variable v
RECURSIVE anonymous_bdd_variables(_, _)
anonymous_bdd_variables(n, v) ==
    IF v = 0 THEN parameter_bdd_variables(n, Len(n.parameters))
    ELSE anonymous_bdd_variables(n, v - 1)
         + (IF n.update_functions[v] = NoFunction
            THEN Pow2(num_regulators(n, v - 1)) ELSE 0)

\* BddVariableSet of the encoder: a valuation is the set of the variables it makes true
bdd_variable_set(n) == 0 .. (anonymous_bdd_variables(n, n.num_vars) - 1)

mk_true(n) == SUBSET bdd_variable_set(n)

mk_false(n) == {}

mk_var(n, var) == {valuation \in mk_true(n) : var \in valuation}

bdd_not(n, a) == mk_true(n) \ a

bdd_imp(n, a, b) == bdd_not(n, a) \cup b

bdd_iff(n, a, b) == bdd_not(n, (a \ b) \cup (b \ a))

\* BddParameterEncoder::compute_table_index
RECURSIVE table_index_loop(_, _, _, _)
table_index_loop(state, args, i, table_index) ==
    IF i >= Len(args) THEN table_index
    ELSE LET added == IF is_set(state, args[i + 1]) THEN table_index + 1 ELSE table_index
         IN  table_index_loop(state, args, i + 1,
                              IF i < Len(args) - 1 THEN added * 2 ELSE added)

\* mutant: the first argument is the least significant digit
RECURSIVE table_index_lsb_loop(_, _, _)
table_index_lsb_loop(state, args, i) ==
    IF i >= Len(args) THEN 0
    ELSE (IF is_set(state, args[i + 1]) THEN Pow2(i) ELSE 0)
         + table_index_lsb_loop(state, args, i + 1)

compute_table_index_lsb(state, args) == table_index_lsb_loop(state, args, 0)

compute_table_index(state, args) == table_index_loop(state, args, 0, 0)

\* mutant: the table row is the number of arguments set in the state
evaluate_parameter_unordered(n, state, parameter, args) ==
    parameter_bdd_variables(n, parameter)
        + Cardinality({k \in DOMAIN args : is_set(state, args[k])})

evaluate_parameter(n, state, parameter, args) ==
    parameter_bdd_variables(n, parameter) + compute_table_index(state, args)

\* mutant: the anonymous tables start at the first BDD variable
evaluate_anonymous_parameter_shared(n, state, variable) ==
    compute_table_index(state, get_regulators(n, variable))

evaluate_anonymous_parameter(n, state, variable) ==
    anonymous_bdd_variables(n, variable)
        + compute_table_index(state, get_regulators(n, variable))

\* BooleanAsyncGraph
Graph(n, unit_set) == [network |-> n, unit_set |-> unit_set]

unit_params(g) == g.unit_set

empty_params(g) == mk_false(g.network)

\* mutant: a negation evaluates to the set of its operand
RECURSIVE eval_update_function_without_not(_, _, _)
eval_update_function_without_not(g, state, f) ==
    CASE f.op = "Variable" ->
            IF is_set(state, f.id) THEN unit_params(g) ELSE empty_params(g)
      [] f.op = "Parameter" ->
            mk_var(g.network, evaluate_parameter(g.network, state, f.id, f.inputs))
      [] f.op = "Not" -> eval_update_function_without_not(g, state, f.a)
      [] f.op = "And" ->
            eval_update_function_without_not(g, state, f.a)
                \cap eval_update_function_without_not(g, state, f.b)
      [] f.op = "Or" ->
            eval_update_function_without_not(g, state, f.a)
                \cup eval_update_function_without_not(g, state, f.b)
      [] f.op = "Imp" ->
            bdd_imp(g.network, eval_update_function_without_not(g, state, f.a),
                    eval_update_function_without_not(g, state, f.b))

RECURSIVE eval_update_function(_, _, _)
eval_update_function(g, state, f) ==
    CASE f.op = "Variable" ->
            IF is_set(state, f.id) THEN unit_params(g) ELSE empty_params(g)
      [] f.op = "Parameter" ->
            mk_var(g.network, evaluate_parameter(g.network, state, f.id, f.inputs))
      [] f.op = "Not" -> unit_params(g) \ eval_update_function(g, state, f.a)
      [] f.op = "And" ->
            eval_update_function(g, state, f.a) \cap eval_update_function(g, state, f.b)
      [] f.op = "Or" ->
            eval_update_function(g, state, f.a) \cup eval_update_function(g, state, f.b)
      [] f.op = "Imp" ->
            bdd_imp(g.network, eval_update_function(g, state, f.a),
                    eval_update_function(g, state, f.b))

\* mutant: the set is not inverted when the variable is set in the state
edge_params_not_inverted(g, state, variable) ==
    IF g.network.update_functions[variable + 1] # NoFunction
    THEN eval_update_function(g, state, g.network.update_functions[variable + 1])
    ELSE mk_var(g.network, evaluate_anonymous_parameter(g.network, state, variable))

\* BooleanAsyncGraph::edge_params
edge_params_of(g, state, variable) ==
    LET update_function == g.network.update_functions[variable + 1]
        to_true == IF update_function # NoFunction
                   THEN eval_update_function(g, state, update_function)
                   ELSE mk_var(g.network,
                               evaluate_anonymous_parameter(g.network, state, variable))
    IN  IF is_set(state, variable) THEN minus(unit_params(g), to_true) ELSE to_true

\* position(|v| *v == regulator) in all_regulators, from 0
regulator_index(all_regulators, regulator) ==
    (CHOOSE k \in DOMAIN all_regulators : all_regulators[k] = regulator) - 1

\* i & regulator_mask == 0 for i in 0..function_table_size
inactive_table_indices(all_regulators, regulator) ==
    {i \in 0 .. (Pow2(Len(all_regulators)) - 1) :
        (i \div Pow2(regulator_index(all_regulators, regulator))) % 2 = 0}

RECURSIVE pack_loop(_, _, _, _)
pack_loop(table_index, regs, i, state) ==
    IF i >= Len(regs) THEN state
    ELSE pack_loop(table_index, regs, i + 1,
                   IF (table_index \div Pow2(i)) % 2 = 1 /\ ~is_set(state, regs[i + 1])
                   THEN state + Pow2(regs[i + 1]) ELSE state)

pack_table_index_into_state_id(table_index, regs) == pack_loop(table_index, regs, 0, 0)

\* the parameters for which the function of target is true in the state
function_true(g, state, target) ==
    LET update_function == g.network.update_functions[target + 1]
    IN  IF update_function # NoFunction
        THEN eval_update_function(g, state, update_function)
        ELSE mk_var(g.network, evaluate_anonymous_parameter(g.network, state, target))

ensure_observable(g, regulator, target) ==
    LET all_regulators == get_regulators(g.network, target)
    IN  UNION {LET inactive_state == pack_table_index_into_state_id(i, all_regulators)
                   active_state == flip_bit(inactive_state, regulator)
               IN  bdd_not(g.network, bdd_iff(g.network,
                                              function_true(g, active_state, target),
                                              function_true(g, inactive_state, target)))
               : i \in inactive_table_indices(all_regulators, regulator)}

\* mutant: every effect is taken for an activation
ensure_monotonicity_increasing(n, active, inactive, effect) == bdd_imp(n, inactive, active)

ensure_monotonicity(n, active, inactive, effect) ==
    IF effect = "ACTIVATION" THEN bdd_imp(n, inactive, active) ELSE bdd_imp(n, active, inactive)

ensure_monotonous(g, regulator, target, effect) ==
    LET all_regulators == get_regulators(g.network, target)
    IN  {valuation \in mk_true(g.network) :
            \A i \in inactive_table_indices(all_regulators, regulator) :
                LET inactive_state == pack_table_index_into_state_id(i, all_regulators)
                    active_state == flip_bit(inactive_state, regulator)
                IN  valuation \in ensure_monotonicity(g.network,
                                     function_true(g, active_state, target),
                                     function_true(g, inactive_state, target), effect)}

\* the loop over the regulations in BooleanAsyncGraph::new
RECURSIVE regulation_conditions(_, _, _)
regulation_conditions(fake_graph, k, condition) ==
    IF k > Len(fake_graph.network.regulations) THEN condition
    ELSE LET regulation == fake_graph.network.regulations[k]
             monotonous ==
                 IF regulation.effect # "None"
                 THEN intersect(condition,
                                ensure_monotonous(fake_graph, regulation.source,
                                                  regulation.target, regulation.effect))
                 ELSE condition
             observable ==
                 IF regulation.observable
                 THEN intersect(monotonous,
                                ensure_observable(fake_graph, regulation.source,
                                                  regulation.target))
                 ELSE monotonous
         IN  regulation_conditions(fake_graph, k + 1, observable)

Err == [ok |-> FALSE, graph |-> <<>>]

Ok(g) == [ok |-> TRUE, graph |-> g]

\* BooleanAsyncGraph::new
BooleanAsyncGraph_new(n) ==
    IF n.num_vars > 32 THEN Err
    ELSE LET fake_graph == Graph(n, mk_true(n))
             condition == regulation_conditions(fake_graph, 1, unit_params(fake_graph))
         IN  IF BddParams_is_empty(condition) THEN Err ELSE Ok(Graph(n, condition))

\* an iterator of step(state) whose next variable is `variables`
EdgeIterator(state, variables, yielded) ==
    [state |-> state, variables |-> variables, yielded |-> yielded]

NoIterators == [fwd |-> <<>>, bwd |-> <<>>]

\* mutant: the variables are visited in descending order
Fwd_item_descending(g, source, var) ==
    [state |-> flip_bit(source, NumVars - 1 - var),
     params |-> intersect(edge_params_of(g, source, NumVars - 1 - var), unit_params(g))]

\* mutant: the edge parameters are yielded as computed
Fwd_item_unrestricted(g, source, var) ==
    [state |-> flip_bit(source, var), params |-> edge_params_of(g, source, var)]

\* FwdBooleanEdgeIterator::next: the item for var
Fwd_item(g, source, var) ==
    [state |-> flip_bit(source, var),
     params |-> intersect(edge_params_of(g, source, var), unit_params(g))]

\* mutant: the edge parameters are computed in the target instead of the source
Bwd_item_from_target(g, target, var) ==
    [state |-> flip_bit(target, var),
     params |-> intersect(edge_params_of(g, target, var), unit_params(g))]

\* BwdBooleanEdgeIterator::next: the item for var
Bwd_item(g, target, var) ==
    [state |-> flip_bit(target, var),
     params |-> intersect(edge_params_of(g, flip_bit(target, var), var), unit_params(g))]

InitGraph ==
    /\ later_unused
    /\ reach_unused
    /\ items = <<>>
    /\ busy = <<>>
    /\ queue = <<>>
    /\ counts = <<>>
    /\ returned = <<>>
    /\ encoder = <<>>
    /\ threads = <<>>
    /\ main = "none"
    /\ network \in Networks
    /\ async_graph = <<>>
    /\ iterators = NoIterators

\* BooleanAsyncGraph::new(network)
GraphNew ==
    /\ async_graph = <<>>
    /\ async_graph' = BooleanAsyncGraph_new(network)
    /\ UNCHANGED <<not_graph, network, iterators>>

\* graph.forward_evolution().step(source)
FwdStep(source) ==
    /\ async_graph # <<>> /\ async_graph.ok
    /\ iterators' = [iterators EXCEPT !.fwd = EdgeIterator(source, 0, <<>>)]
    /\ UNCHANGED <<not_graph, network, async_graph>>

\* graph.backward_evolution().step(source)
BwdStep(source) ==
    /\ async_graph # <<>> /\ async_graph.ok
    /\ iterators' = [iterators EXCEPT !.bwd = EdgeIterator(source, 0, <<>>)]
    /\ UNCHANGED <<not_graph, network, async_graph>>

\* FwdBooleanEdgeIterator::next returning Some
FwdNext ==
    /\ iterators.fwd # <<>>
    /\ iterators.fwd.variables < network.num_vars
    /\ iterators' = [iterators EXCEPT !.fwd =
          EdgeIterator(@.state, @.variables + 1,
                       Append(@.yielded, Fwd_item(async_graph.graph, @.state, @.variables)))]
    /\ UNCHANGED <<not_graph, network, async_graph>>

\* BwdBooleanEdgeIterator::next returning Some
BwdNext ==
    /\ iterators.bwd # <<>>
    /\ iterators.bwd.variables < network.num_vars
    /\ iterators' = [iterators EXCEPT !.bwd =
          EdgeIterator(@.state, @.variables + 1,
                       Append(@.yielded, Bwd_item(async_graph.graph, @.state, @.variables)))]
    /\ UNCHANGED <<not_graph, network, async_graph>>

\* next returning None: the loop over the iterator ends and drops it
FwdNone ==
    /\ iterators.fwd # <<>>
    /\ iterators.fwd.variables >= network.num_vars
    /\ iterators' = [iterators EXCEPT !.fwd = <<>>]
    /\ UNCHANGED <<not_graph, network, async_graph>>

BwdNone ==
    /\ iterators.bwd # <<>>
    /\ iterators.bwd.variables >= network.num_vars
    /\ iterators' = [iterators EXCEPT !.bwd = <<>>]
    /\ UNCHANGED <<not_graph, network, async_graph>>

NextGraph ==
    \/ GraphNew
    \/ \E source \in States : FwdStep(source)
    \/ \E source \in States : BwdStep(source)
    \/ FwdNext
    \/ BwdNext
    \/ FwdNone
    \/ BwdNone

SpecGraph == InitGraph /\ [][NextGraph]_vars

\* the condition BooleanAsyncGraph::new computes from the regulations
new_condition(n) ==
    regulation_conditions(Graph(n, mk_true(n)), 1, unit_params(Graph(n, mk_true(n))))

\* the edge iterators as functions of the graph value: the graph is the struct that
\* BooleanAsyncGraph::new builds from the network and its condition
InitEdges ==
    /\ later_unused
    /\ reach_unused
    /\ items = <<>>
    /\ busy = <<>>
    /\ queue = <<>>
    /\ counts = <<>>
    /\ returned = <<>>
    /\ encoder = <<>>
    /\ threads = <<>>
    /\ main = "none"
    /\ network \in Networks
    /\ async_graph = Ok(Graph(network, new_condition(network)))
    /\ iterators = NoIterators

NextEdges ==
    \/ \E source \in States : FwdStep(source)
    \/ \E source \in States : BwdStep(source)
    \/ FwdNext
    \/ BwdNext
    \/ FwdNone
    \/ BwdNone

SpecEdges == InitEdges /\ [][NextEdges]_vars

----------------------------------------------------------------------------
(* BddParameterEncoder as functions of their arguments:                    *)
(* src/src/boolean_network/bdd_params/impl_bdd_parameter_encoder.rs        *)

\* the lists of at most MaxArgs variables
ArgLists == UNION {[1 .. k -> Vars] : k \in 0 .. MaxArgs}

\* a call and what it returned
Call(op, state, table_index, id, args, result) ==
    [op |-> op, state |-> state, table_index |-> table_index, id |-> id, args |-> args,
     result |-> result]

\* BddParameterEncoder::new(&network)
InitEncoder ==
    /\ later_unused
    /\ reach_unused
    /\ items = <<>>
    /\ busy = <<>>
    /\ queue = <<>>
    /\ counts = <<>>
    /\ returned = <<>>
    /\ threads = <<>>
    /\ main = "none"
    /\ network \in Networks
    /\ async_graph = <<>>
    /\ iterators = <<>>
    /\ encoder = Call("new", 0, 0, 0, <<>>, 0)

\* compute_table_index(state, args)
ComputeTableIndex(state, args) ==
    /\ encoder' = Call("compute_table_index", state, 0, 0, args,
                       compute_table_index(state, args))
    /\ UNCHANGED not_encoder

\* pack_table_index_into_state_id(table_index, regulators)
PackTableIndex(table_index, regs) ==
    /\ table_index < Pow2(Len(regs))
    /\ encoder' = Call("pack_table_index_into_state_id", 0, table_index, 0, regs,
                       pack_table_index_into_state_id(table_index, regs))
    /\ UNCHANGED not_encoder

\* evaluate_parameter(state, parameter, args), args as many as the parameter takes
EvaluateParameter(state, parameter, args) ==
    /\ parameter < Len(network.parameters)
    /\ Len(args) = network.parameters[parameter + 1]
    /\ encoder' = Call("evaluate_parameter", state, 0, parameter, args,
                       evaluate_parameter(network, state, parameter, args))
    /\ UNCHANGED not_encoder

\* evaluate_anonymous_parameter(state, variable), variable without update function
EvaluateAnonymousParameter(state, variable) ==
    /\ network.update_functions[variable + 1] = NoFunction
    /\ encoder' = Call("evaluate_anonymous_parameter", state, 0, variable,
                       get_regulators(network, variable),
                       evaluate_anonymous_parameter(network, state, variable))
    /\ UNCHANGED not_encoder

NextEncoder ==
    \/ \E state \in States, args \in ArgLists : ComputeTableIndex(state, args)
    \/ \E args \in ArgLists, table_index \in 0 .. (Pow2(MaxArgs) - 1) :
          PackTableIndex(table_index, args)
    \/ \E state \in States, parameter \in 0 .. 1, args \in ArgLists :
          EvaluateParameter(state, parameter, args)
    \/ \E state \in States, variable \in Vars : EvaluateAnonymousParameter(state, variable)

SpecEncoder == InitEncoder /\ [][NextEncoder]_vars

----------------------------------------------------------------------------
(* The parser of update functions:                                         *)
(* src/src/boolean_network/builder/impl_update_function_parser.rs          *)
(* A string is the sequence of its characters.                             *)

Iff(a, b) == [op |-> "Iff", a |-> a, b |-> b]

Xor(a, b) == [op |-> "Xor", a |-> a, b |-> b]

\* UpdateFunctionTemplate::Variable { name }
TemplateVariable(name) == [op |-> "Variable", name |-> name]

\* UpdateFunctionTemplate::Parameter { name, inputs }
TemplateParameter(name, inputs) == [op |-> "Parameter", name |-> name, inputs |-> inputs]

\* Result::Ok(value) and Result::Err(message)
Success(value) == [ok |-> TRUE, value |-> value]

Failure(message) == [ok |-> FALSE, error |-> message]

\* enum Token
Token(kind) == [token |-> kind]

TokenName(name) == [token |-> "Name", name |-> name]

TokenTokens(tokens) == [token |-> "Tokens", tokens |-> tokens]

\* the letters that occur in the texts of the model
Letters == {"a", "b", "c", "p", "q"}

is_whitespace(c) == c = " "

is_valid_in_name(c) == c \in Letters \/ c = "_"

\* lines 110-119: the name that starts at `position`, and the position after it
RECURSIVE read_name(_, _, _)
read_name(data, position, name) ==
    IF position > Len(data) \/ is_whitespace(data[position])
          \/ ~is_valid_in_name(data[position])
    THEN [name |-> name, position |-> position]
    ELSE read_name(data, position + 1, name \o data[position])

\* tokenize_function_group: `position` is the next character of the iterator; the
\* answer has the tokens and the position of the iterator after the call
RECURSIVE tokenize_function_group(_, _, _, _)
tokenize_function_group(data, position, top_level, output) ==
    IF position > Len(data)
    THEN (IF top_level THEN [ok |-> TRUE, tokens |-> output, position |-> position]
          ELSE [ok |-> FALSE, tokens |-> <<>>, position |-> position])
    ELSE
    LET c == data[position]
        next == position + 1
        push(token, after) == tokenize_function_group(data, after, top_level,
                                                      Append(output, token))
        error == [ok |-> FALSE, tokens |-> <<>>, position |-> next]
    IN  CASE is_whitespace(c) -> tokenize_function_group(data, next, top_level, output)
          [] c = "!" -> push(Token("Not"), next)
          [] c = "," -> push(Token("Comma"), next)
          [] c = "&" -> push(Token("And"), next)
          [] c = "|" -> push(Token("Or"), next)
          [] c = "^" -> push(Token("Xor"), next)
          [] c = "=" ->
                IF next <= Len(data) /\ data[next] = ">"
                THEN push(Token("Imp"), next + 1) ELSE error
          [] c = "<" ->
                IF next <= Len(data) /\ data[next] = "="
                THEN (IF next + 1 <= Len(data) /\ data[next + 1] = ">"
                      THEN push(Token("Iff"), next + 2) ELSE error)
                ELSE error
          [] c = ">" -> error
          [] c = ")" ->
                IF ~top_level THEN [ok |-> TRUE, tokens |-> output, position |-> next]
                ELSE error
          [] c = "(" ->
                LET group == tokenize_function_group(data, next, FALSE, <<>>)
                IN  IF group.ok THEN push(TokenTokens(group.tokens), group.position)
                    ELSE group
          [] is_valid_in_name(c) ->
                LET read == read_name(data, next, c)
                IN  push(TokenName(read.name), read.position)
          [] OTHER -> error

\* index_of_first: the 1-based index of the first occurrence, 0 for None
index_of_first(data, token) ==
    IF \E i \in DOMAIN data : data[i] = token
    THEN CHOOSE i \in DOMAIN data :
             data[i] = token /\ \A j \in 1 .. (i - 1) : data[j] # token
    ELSE 0

\* &data[..i] and &data[(i + 1)..] for the 1-based index i
slice_before(data, i) == SubSeq(data, 1, i - 1)

slice_after(data, i) == SubSeq(data, i + 1, Len(data))

\* Box::new(Op(left?, right?))
binary(Op(_, _), left, right) ==
    IF ~left.ok THEN left
    ELSE IF ~right.ok THEN right
    ELSE Success(Op(left.value, right.value))

\* read_args
RECURSIVE read_args_loop(_, _, _)
read_args_loop(data, i, inputs) ==
    IF data[i].token = "Name"
    THEN LET pushed == Append(inputs, data[i].name)
         IN  IF Len(data) = i THEN Success(pushed)
             ELSE IF data[i + 1] # Token("Comma") THEN Failure("Expected ','")
             ELSE IF Len(data) = i + 1 THEN Failure("Unexpected ',' at the end")
             ELSE read_args_loop(data, i + 2, pushed)
    ELSE Failure("Unexpected token in argument list")

read_args(data) == IF data = <<>> THEN Success(<<>>) ELSE read_args_loop(data, 1, <<>>)

RECURSIVE iff(_)
RECURSIVE imp(_)
RECURSIVE or(_)
RECURSIVE and(_)
RECURSIVE xor(_)
RECURSIVE terminal(_)

parse_update_function(data) == iff(data)

\* step 1: extract `<=>` operators
iff(data) ==
    LET iff_token == index_of_first(data, Token("Iff"))
    IN  IF iff_token # 0
        THEN binary(Iff, imp(slice_before(data, iff_token)), iff(slice_after(data, iff_token)))
        ELSE imp(data)

\* step 2: extract `=>` operators
imp(data) ==
    LET imp_token == index_of_first(data, Token("Imp"))
    IN  IF imp_token # 0
        THEN binary(Imp, or(slice_before(data, imp_token)), imp(slice_after(data, imp_token)))
        ELSE or(data)

\* step 3: extract `|` operators
or(data) ==
    LET or_token == index_of_first(data, Token("Or"))
    IN  IF or_token # 0
        THEN binary(Or, and(slice_before(data, or_token)), or(slice_after(data, or_token)))
        ELSE and(data)

\* step 4: extract `&` operators
and(data) ==
    LET and_token == index_of_first(data, Token("And"))
    IN  IF and_token # 0
        THEN binary(And, xor(slice_before(data, and_token)), and(slice_after(data, and_token)))
        ELSE xor(data)

\* step 5: extract `^` operators
xor(data) ==
    LET xor_token == index_of_first(data, Token("Xor"))
    IN  IF xor_token # 0
        THEN binary(Xor, terminal(slice_before(data, xor_token)), xor(slice_after(data, xor_token)))
        ELSE terminal(data)

\* step 6: extract terminals and negations
terminal(data) ==
    IF data = <<>> THEN Failure("Expected formula, found nothing")
    ELSE IF data[1] = Token("Not")
    THEN LET inner == terminal(Tail(data))
         IN  IF inner.ok THEN Success(Not(inner.value)) ELSE inner
    ELSE IF Len(data) = 1
    THEN CASE data[1].token = "Name" -> Success(TemplateVariable(data[1].name))
           [] data[1].token = "Tokens" -> parse_update_function(data[1].tokens)
           [] OTHER -> Failure("Unexpected token. Expecting formula.")
    ELSE IF Len(data) = 2
    THEN (IF data[1].token = "Name" /\ data[2].token = "Tokens"
          THEN LET inputs == read_args(data[2].tokens)
               IN  IF inputs.ok THEN Success(TemplateParameter(data[1].name, inputs.value))
                   ELSE inputs
          ELSE Failure("Unexpected. Expecting formula."))
    ELSE Failure("Unexpected. Expecting formula.")

\* UpdateFunctionTemplate::try_from(value)
UpdateFunctionTemplate_try_from(value) ==
    LET tokens == tokenize_function_group(value, 1, TRUE, <<>>)
    IN  IF tokens.ok THEN parse_update_function(tokens.tokens)
        ELSE Failure("tokenize_function_group")

----------------------------------------------------------------------------
(* The network builder: src/src/boolean_network/builder                    *)

\* Option<VariableId>, Option<ParameterId>, Option<&Regulation>
NoId == [some |-> FALSE]

SomeId(id) == [some |-> TRUE, id |-> id]

\* RegulatoryGraph::new(&variables)
RegulatoryGraph_new(variables) == [variables |-> variables, regulations |-> <<>>]

\* RegulatoryGraph::get_variable_id: variable_to_index.get(var)
get_variable_id(g, var) ==
    IF \E i \in DOMAIN g.variables : g.variables[i] = var
    THEN SomeId((CHOOSE i \in DOMAIN g.variables : g.variables[i] = var) - 1)
    ELSE NoId

\* RegulatoryGraph::get_regulation: the first regulation of the pair in the vector
get_regulation(g, source, target) ==
    LET found == {k \in DOMAIN g.regulations :
                     /\ g.regulations[k].source = source
                     /\ g.regulations[k].target = target}
    IN  IF found = {} THEN NoId
        ELSE SomeId(CHOOSE k \in found : \A other \in found : k <= other)

\* mutant: a regulation is pushed for a pair that has one
add_regulation_again(g, source, target, observable, effect) ==
    LET s == get_variable_id(g, source)
        t == get_variable_id(g, target)
    IN  IF ~s.some THEN [ok |-> FALSE, error |-> "Unknown regulator species", rg |-> g]
        ELSE IF ~t.some THEN [ok |-> FALSE, error |-> "Unknown regulated species", rg |-> g]
        ELSE [ok |-> TRUE, error |-> "",
              rg |-> [g EXCEPT !.regulations =
                         Append(@, Regulation(s.id, t.id, observable, effect))]]

\* RegulatoryGraph::add_regulation: the Result, and the graph after the call
add_regulation(g, source, target, observable, effect) ==
    LET s == get_variable_id(g, source)
        t == get_variable_id(g, target)
    IN  IF ~s.some THEN [ok |-> FALSE, error |-> "Unknown regulator species", rg |-> g]
        ELSE IF ~t.some THEN [ok |-> FALSE, error |-> "Unknown regulated species", rg |-> g]
        ELSE IF get_regulation(g, s.id, t.id) # NoId
        THEN [ok |-> FALSE, error |-> "already defined", rg |-> g]
        ELSE [ok |-> TRUE, error |-> "",
              rg |-> [g EXCEPT !.regulations =
                         Append(@, Regulation(s.id, t.id, observable, effect))]]

\* struct Parameter { name, cardinality }
BNParameter(name, cardinality) == [name |-> name, cardinality |-> cardinality]

\* BooleanNetwork::new(graph)
BooleanNetwork_new(g) ==
    [regulatory_graph |-> g,
     parameters |-> <<>>,
     parameter_to_index |-> [name \in {} |-> 0],
     update_functions |-> [v \in DOMAIN g.variables |-> NoFunction]]

\* BooleanNetwork::get_parameter_id
get_parameter_id(n, param) ==
    IF param \in DOMAIN n.parameter_to_index THEN SomeId(n.parameter_to_index[param])
    ELSE NoId

\* BooleanNetwork::get_parameter
get_parameter(n, id) == n.parameters[id + 1]

IsBinary(t) == t.op \in {"And", "Or", "Imp", "Iff", "Xor"}

\* UpdateFunctionTemplate::swap_unary_parameters
RECURSIVE swap_unary_parameters(_, _)
swap_unary_parameters(t, g) ==
    CASE t.op = "Variable" ->
            IF get_variable_id(g, t.name) # NoId THEN t
            ELSE TemplateParameter(t.name, <<>>)
      [] t.op = "Parameter" -> t
      [] t.op = "Not" -> Not(swap_unary_parameters(t.a, g))
      [] IsBinary(t) ->
            [t EXCEPT !.a = swap_unary_parameters(t.a, g),
                      !.b = swap_unary_parameters(t.b, g)]

\* UpdateFunctionTemplate::extract_parameters
RECURSIVE extract_parameters(_)
extract_parameters(t) ==
    CASE t.op = "Parameter" -> {BNParameter(t.name, Len(t.inputs))}
      [] t.op = "Variable" -> {}
      [] t.op = "Not" -> extract_parameters(t.a)
      [] IsBinary(t) -> extract_parameters(t.a) \cup extract_parameters(t.b)

\* UpdateFunctionTemplate::extract_variables
RECURSIVE extract_variables(_)
extract_variables(t) ==
    CASE t.op = "Parameter" -> {}
      [] t.op = "Variable" -> {t.name}
      [] t.op = "Not" -> extract_variables(t.a)
      [] IsBinary(t) -> extract_variables(t.a) \cup extract_variables(t.b)

\* lines 90-97 of build: the ids of the inputs, or an error for an unknown variable
RECURSIVE build_inputs(_, _, _, _)
build_inputs(g, inputs, i, args) ==
    IF i > Len(inputs) THEN Success(args)
    ELSE LET index == get_variable_id(g, inputs[i])
         IN  IF ~index.some THEN Failure("Unknown variable in parameter")
             ELSE build_inputs(g, inputs, i + 1, Append(args, index.id))

\* UpdateFunctionTemplate::build(variable_to_index, parameter_to_index)
RECURSIVE build(_, _, _)
build(t, g, n) ==
    CASE t.op = "Variable" ->
            LET index == get_variable_id(g, t.name)
            IN  IF ~index.some THEN Failure("Unknown variable")
                ELSE Success(Variable(index.id))
      [] t.op = "Parameter" ->
            LET index == get_parameter_id(n, t.name)
                args == build_inputs(g, t.inputs, 1, <<>>)
            IN  IF ~index.some THEN Failure("Unknown parameter")
                ELSE IF ~args.ok THEN args
                ELSE Success(Parameter(index.id, args.value))
      [] t.op = "Not" ->
            LET inner == build(t.a, g, n)
            IN  IF inner.ok THEN Success(Not(inner.value)) ELSE inner
      [] IsBinary(t) ->
            LET a == build(t.a, g, n)
                b == build(t.b, g, n)
            IN  IF ~a.ok THEN a
                ELSE IF ~b.ok THEN b
                ELSE Success([op |-> t.op, a |-> a.value, b |-> b.value])

\* the characters of a word of a text
Characters(word) ==
    CASE word = "=>" -> <<"=", ">">>
      [] word = "<=>" -> <<"<", "=", ">">>
      [] OTHER -> <<word>>

\* the string made of the words
RECURSIVE Text(_)
Text(words) == IF words = <<>> THEN <<>> ELSE Characters(Head(words)) \o Text(Tail(words))

\* the names the calls of the builder are given: the variables `a` and `b` of
\* test_invalid_update_function and its unknown variable `c`
Names == {"a", "b", "c"}

\* the regulations the calls are given: `->` and `-|?`
RegulationKinds == {<<TRUE, "ACTIVATION">>, <<FALSE, "INHIBITION">>}

\* the function texts the calls are given: those of test_invalid_update_function,
\* then a parameter of an unregulated variable, one name with two arities,
\* a parameter of an unknown variable, an unfinished formula
FunctionTexts ==
    {Text(<<"!", "a">>),
     Text(<<"p", " ", "=>", " ", "b">>),
     Text(<<"a", " ", "&", " ", "a", "(", ")">>),
     Text(<<"p", "(", "a", ")", " ", "=>", " ", "a">>),
     Text(<<"p", "(", "b", ")", " ", "=>", " ", "a">>),
     Text(<<"q", "(", "b", ")", " ", "=>", " ", "a">>),
     Text(<<"q", "(", "a", ")", " ", "&", " ", "q", "(", "a", ",", " ", "b", ")">>),
     Text(<<"q", "(", "c", ")">>),
     Text(<<"a", " ", "&">>)}

\* line 45: UpdateFunctionTemplate::try_from(update_function), evaluated once for
\* every text the calls are given
TemplateOf == [text \in FunctionTexts |-> UpdateFunctionTemplate_try_from(text)]

\* the orders in which a HashSet can be iterated
Orders(set) ==
    {order \in [1 .. Cardinality(set) -> set] :
        \A i, j \in 1 .. Cardinality(set) : i # j => order[i] # order[j]}

\* mutant: the cardinality of an existing parameter is not compared
check_parameters_by_name(n, parameters, i) ==
    IF \E k \in DOMAIN parameters :
           get_variable_id(n.regulatory_graph, parameters[k].name) # NoId
    THEN "can't be both a parameter and a variable"
    ELSE ""

\* lines 51-65: the first parameter of the iteration that is used incorrectly
RECURSIVE check_parameters(_, _, _)
check_parameters(n, parameters, i) ==
    IF i > Len(parameters) THEN ""
    ELSE LET p_in_f == parameters[i]
             id == get_parameter_id(n, p_in_f.name)
         IN  IF get_variable_id(n.regulatory_graph, p_in_f.name) # NoId
             THEN "can't be both a parameter and a variable"
             ELSE IF id.some /\ p_in_f.cardinality # get_parameter(n, id.id).cardinality
             THEN "appears with cardinality"
             ELSE check_parameters(n, parameters, i + 1)

\* lines 91-97: the new parameters are added to the network
RECURSIVE add_parameters(_, _, _)
add_parameters(n, parameters, i) ==
    IF i > Len(parameters) THEN n
    ELSE LET p_in_f == parameters[i]
             added ==
                 IF get_parameter_id(n, p_in_f.name) = NoId
                 THEN [n EXCEPT
                          !.parameter_to_index =
                              (p_in_f.name :> Len(n.parameters)) @@ n.parameter_to_index,
                          !.parameters = Append(n.parameters, p_in_f)]
                 ELSE n
         IN  add_parameters(added, parameters, i + 1)

\* BooleanNetwork::add_update_function: the Result and the network after the call;
\* `parameters` is the set of extract_parameters in the order the loops iterate it
add_update_function(n, variable, text, parameters) ==
    LET variable_index == get_variable_id(n.regulatory_graph, variable)
        parsed == TemplateOf[text]
        update_function == swap_unary_parameters(parsed.value, n.regulatory_graph)
        misused == check_parameters(n, parameters, 1)
        variables == extract_variables(update_function)
        unregulated ==
            {var \in variables :
                get_regulation(n.regulatory_graph,
                               get_variable_id(n.regulatory_graph, var).id,
                               variable_index.id) = NoId}
        added == add_parameters(n, parameters, 1)
        built == build(update_function, n.regulatory_graph, added)
        Error(message, unchanged) ==
            [ok |-> FALSE, error |-> message, network |-> unchanged]
    IN  IF ~variable_index.some THEN Error("Unknown variable", n)
        ELSE IF n.update_functions[variable_index.id + 1] # NoFunction
        THEN Error("already set", n)
        ELSE IF ~parsed.ok THEN Error(parsed.error, n)
        ELSE IF misused # "" THEN Error(misused, n)
        ELSE IF unregulated # {} THEN Error("does not regulate", n)
        ELSE IF ~built.ok THEN Error(built.error, added)
        ELSE [ok |-> TRUE, error |-> "",
              network |-> [added EXCEPT
                              !.update_functions[variable_index.id + 1] = built.value]]

\* the parameters the loops of add_update_function iterate for a text
parameters_of(n, text) ==
    LET parsed == TemplateOf[text]
    IN  IF parsed.ok
        THEN extract_parameters(swap_unary_parameters(parsed.value, n.regulatory_graph))
        ELSE {}

\* the function of the builder called last, its arguments, the Result it returned
BuilderCall(op, arguments, ok, error) ==
    [op |-> op, arguments |-> arguments, ok |-> ok, error |-> error]

\* RegulatoryGraph::new(&vec!["a", "b"])
InitBuilder ==
    /\ earlier_unused
    /\ parser = <<>>
    /\ option_set = <<>>
    /\ token_tree_builder = <<>>
    /\ tokenizer = <<>>
    /\ bv = <<>>
    /\ matcher = <<>>
    /\ rg = RegulatoryGraph_new(<<"a", "b">>)
    /\ bn = <<>>
    /\ last_call = BuilderCall("RegulatoryGraph::new", <<>>, TRUE, "")

\* rg.add_regulation(source, target, observable, effect), before the graph is
\* moved into the network
AddRegulation(most, source, target, observable, effect) ==
    /\ bn = <<>>
    /\ LET returned_value == add_regulation(rg, source, target, observable, effect)
       IN  /\ returned_value.ok => Len(rg.regulations) < most
           /\ rg' = returned_value.rg
           /\ last_call' = BuilderCall("add_regulation", <<source, target>>,
                                       returned_value.ok, returned_value.error)
    /\ UNCHANGED <<bn, not_builder>>

\* BooleanNetwork::new(rg)
NewNetwork ==
    /\ bn = <<>>
    /\ bn' = BooleanNetwork_new(rg)
    /\ last_call' = BuilderCall("BooleanNetwork::new", <<>>, TRUE, "")
    /\ UNCHANGED <<rg, not_builder>>

\* bn.add_update_function(variable, text), the HashSet of the parameters being
\* iterated in the order `parameters`
AddUpdateFunction(variable, text) ==
    /\ bn # <<>>
    /\ \E parameters \in Orders(parameters_of(bn, text)) :
          LET returned_value == add_update_function(bn, variable, text, parameters)
          IN  /\ bn' = returned_value.network
              /\ last_call' = BuilderCall("add_update_function", <<variable, text>>,
                                          returned_value.ok, returned_value.error)
    /\ UNCHANGED <<rg, not_builder>>

NextBuilder ==
    \/ \E source \in Names, target \in Names, kind \in RegulationKinds :
          AddRegulation(MaxNetworkRegulations, source, target, kind[1], kind[2])
    \/ NewNetwork
    \/ \E variable \in Names, text \in FunctionTexts : AddUpdateFunction(variable, text)

SpecBuilder == InitBuilder /\ [][NextBuilder]_vars

\* the calls of add_regulation on a RegulatoryGraph
NextRegulatoryGraph ==
    \E source \in Names, target \in Names, kind \in RegulationKinds :
        AddRegulation(MaxRegulations, source, target, kind[1], kind[2])

SpecRegulatoryGraph == InitBuilder /\ [][NextRegulatoryGraph]_vars


----------------------------------------------------------------------------
(* Calls of UpdateFunctionTemplate::try_from:                              *)
(* src/src/boolean_network/builder/impl_update_function_parser.rs          *)

\* the variables the parser does not use
not_parser ==
    <<earlier_vars, builder_vars, option_set, token_tree_builder, tokenizer, bv, matcher>>

\* the binary operators of the grammar, as they are written
Operators == {"^", "&", "|", "=>", "<=>"}

\* the names the formulas are made of
Operands == {"a", "b", "c"}

\* the text `x first y second z`
Chain(x, first, y, second, z) == Text(<<x, " ", first, " ", y, " ", second, " ", z>>)

\* the texts try_from is given: the chains of two operators over three names
ParserTexts ==
    {Chain(x, first, y, second, z) :
        x \in Operands, y \in Operands, z \in Operands,
        first \in Operators, second \in Operators}

\* try_from has not returned
NotCalled == <<>>

InitParser ==
    /\ earlier_unused
    /\ builder_unused
    /\ option_set = <<>>
    /\ token_tree_builder = <<>>
    /\ tokenizer = <<>>
    /\ bv = <<>>
    /\ matcher = <<>>
    /\ parser \in {[value |-> text, returned |-> NotCalled] : text \in ParserTexts}

\* UpdateFunctionTemplate::try_from(value)
TryFrom ==
    /\ parser.returned = NotCalled
    /\ parser' = [parser EXCEPT !.returned = UpdateFunctionTemplate_try_from(parser.value)]
    /\ UNCHANGED not_parser

NextParser == TryFrom

SpecParser == InitParser /\ [][NextParser]_vars


----------------------------------------------------------------------------
(* Set for Option<T>: src/src/collections/sets/_impl_set_for_option_set.rs *)
(* with T = ExplicitSet: src/src/collections/sets/_impl_explicit_set.rs    *)

\* the variables the sets do not use
not_option_set ==
    <<earlier_vars, builder_vars, parser, token_tree_builder, tokenizer, bv, matcher>>

\* the elements of the explicit sets
Elements == 1 .. MaxElement

\* ExplicitSet: a HashSet of elements
ExplicitSet_empty == {}

ExplicitSet_union(a, b) == a \cup b

ExplicitSet_intersect(a, b) == a \cap b

ExplicitSet_minus(a, b) == a \ b

ExplicitSet_is_empty(a) == a = {}

\* self.0.difference(&other.0).next().is_none()
ExplicitSet_is_subset(a, b) == a \ b = {}

\* Option<T>::None and Option<T>::Some(a)
NoSet == [some |-> FALSE]

SomeSet(a) == [some |-> TRUE, value |-> a]

Option_empty == NoSet

Option_union(self, other) ==
    IF ~self.some THEN other
    ELSE IF ~other.some THEN SomeSet(self.value)
    ELSE SomeSet(ExplicitSet_union(self.value, other.value))

Option_intersect(self, other) ==
    IF ~self.some THEN NoSet
    ELSE IF ~other.some THEN NoSet
    ELSE SomeSet(ExplicitSet_intersect(self.value, other.value))

Option_minus(self, other) ==
    IF ~self.some THEN NoSet
    ELSE IF ~other.some THEN SomeSet(self.value)
    ELSE SomeSet(ExplicitSet_minus(self.value, other.value))

Option_is_empty(self) == IF self.some THEN ExplicitSet_is_empty(self.value) ELSE TRUE

Option_is_subset(self, other) ==
    IF ~self.some THEN TRUE
    ELSE IF ~other.some THEN FALSE
    ELSE ExplicitSet_is_subset(self.value, other.value)

\* the values of Option<ExplicitSet> over the elements
OptionSets == {NoSet} \cup {SomeSet(a) : a \in SUBSET Elements}

\* the receiver and the argument of a call, the method called and what it returned
OptionCall(self, other, op, answer) ==
    [self |-> self, other |-> other, op |-> op, returned |-> answer]

InitOptionSet ==
    /\ earlier_unused
    /\ builder_unused
    /\ parser = <<>>
    /\ token_tree_builder = <<>>
    /\ tokenizer = <<>>
    /\ bv = <<>>
    /\ matcher = <<>>
    /\ option_set \in {OptionCall(a, b, "none", <<>>) : a \in OptionSets, b \in OptionSets}

\* self.union(other)
Union ==
    /\ option_set' = OptionCall(option_set.self, option_set.other, "union",
                                Option_union(option_set.self, option_set.other))
    /\ UNCHANGED not_option_set

\* self.intersect(other)
Intersect ==
    /\ option_set' = OptionCall(option_set.self, option_set.other, "intersect",
                                Option_intersect(option_set.self, option_set.other))
    /\ UNCHANGED not_option_set

\* self.minus(other)
Minus ==
    /\ option_set' = OptionCall(option_set.self, option_set.other, "minus",
                                Option_minus(option_set.self, option_set.other))
    /\ UNCHANGED not_option_set

\* self.is_empty()
IsEmpty ==
    /\ option_set' = OptionCall(option_set.self, option_set.other, "is_empty",
                                Option_is_empty(option_set.self))
    /\ UNCHANGED not_option_set

\* self.is_subset(other)
IsSubset ==
    /\ option_set' = OptionCall(option_set.self, option_set.other, "is_subset",
                                Option_is_subset(option_set.self, option_set.other))
    /\ UNCHANGED not_option_set

NextOptionSet == Union \/ Intersect \/ Minus \/ IsEmpty \/ IsSubset

SpecOptionSet == InitOptionSet /\ [][NextOptionSet]_vars


----------------------------------------------------------------------------
(* TokenTreeBuilder: src/src/parsers/groups/_impl_token_tree_builder.rs    *)

\* the variables the token tree builder does not use
not_token_tree_builder ==
    <<earlier_vars, builder_vars, parser, option_set, tokenizer, bv, matcher>>

\* parsers::tokens::Token with the unit payload
TextToken(starts_at, data) == [starts_at |-> starts_at, data |-> data]

\* Option<Token>, Option<usize>
Nothing == [some |-> FALSE]

Just(value) == [some |-> TRUE, value |-> value]

\* const_data_group!(name, open, close)
const_data_group(name, open, close) == [name |-> name, open |-> open, close |-> close]

GroupRule_opens(rule, token) == token.data = rule.open

GroupRule_closes(rule, token) == token.data = rule.close

GroupRule_is_group(rule, open, close) == open.data = rule.open /\ close.data = rule.close

\* the builder of the tests
builder ==
    <<const_data_group("parenthesis", "(", ")"),
      const_data_group("brackets", "[", "]"),
      const_data_group("block", "{", "}")>>

\* TokenTree::Value and TokenTree::Group
Value(token) == [tree |-> "Value", token |-> token]

Group(name, open, close, data) ==
    [tree |-> "Group", name |-> name, open |-> open, close |-> close, data |-> data]

\* GroupError::unexpected_group_end
unexpected_group_end(rule, token) ==
    [starts_at |-> Nothing, ends_at |-> Just(token.starts_at),
     message |-> <<"Unexpected group closing", rule.name, token.data>>]

\* GroupError::unclosed_group: end is an Option<&Token>
unclosed_group(rule, start, end) ==
    [starts_at |-> Just(start.starts_at),
     ends_at |-> IF end.some THEN Just(end.value.starts_at) ELSE Nothing,
     message |-> <<"Unclosed group", rule.name, start.data>>]

\* no rule found by find
NoRule == <<>>

\* iter().find(|r| test(r, token)): the first rule, or NoRule
find_rule(templates, test(_, _), token) ==
    IF \E k \in DOMAIN templates : test(templates[k], token)
    THEN templates[CHOOSE k \in DOMAIN templates :
                      /\ test(templates[k], token)
                      /\ \A j \in 1 .. (k - 1) : ~test(templates[j], token)]
    ELSE NoRule

opens(templates, token) == find_rule(templates, GroupRule_opens, token)

can_close(templates, token) == find_rule(templates, GroupRule_closes, token)

\* an element of the GroupStack
StackEntry(rule, start, forest) == [rule |-> rule, start |-> start, forest |-> forest]

\* the root forest and the group stack, which the helpers change together
Building(root, stack) == [root |-> root, stack |-> stack]

push_result(tree, root, stack) ==
    IF stack # <<>>
    THEN Building(root, [stack EXCEPT ![Len(stack)].forest = Append(@, tree)])
    ELSE Building(Append(root, tree), stack)

\* the stack without its last element
pop(stack) == SubSeq(stack, 1, Len(stack) - 1)

\* try_to_close_group: whether the group was closed, and the forest and stack after
try_to_close_group(token, root, stack) ==
    IF stack # <<>>
          /\ GroupRule_is_group(stack[Len(stack)].rule, stack[Len(stack)].start, token)
    THEN LET last == stack[Len(stack)]
             group == Group(last.rule.name, last.start, Just(token), last.forest)
         IN  [closed |-> TRUE, building |-> push_result(group, root, pop(stack))]
    ELSE [closed |-> FALSE, building |-> Building(root, stack)]

\* the loop of group_tokens from the i-th token, and the return after it
RECURSIVE group_tokens_loop(_, _, _, _, _)
group_tokens_loop(templates, tokens, i, root, stack) ==
    IF i > Len(tokens)
    THEN (IF stack # <<>>
          THEN Failure(unclosed_group(stack[Len(stack)].rule, stack[Len(stack)].start,
                                      Nothing))
          ELSE Success(root))
    ELSE
    LET token == tokens[i]
        template == opens(templates, token)
        closing == try_to_close_group(token, root, stack)
        pushed == push_result(Value(token), root, stack)
    IN  IF template # NoRule
        THEN group_tokens_loop(templates, tokens, i + 1, root,
                               Append(stack, StackEntry(template, token, <<>>)))
        ELSE IF closing.closed
        THEN group_tokens_loop(templates, tokens, i + 1,
                               closing.building.root, closing.building.stack)
        ELSE IF can_close(templates, token) # NoRule
        THEN Failure(unexpected_group_end(can_close(templates, token), token))
        ELSE group_tokens_loop(templates, tokens, i + 1, pushed.root, pushed.stack)

group_tokens(templates, tokens) == group_tokens_loop(templates, tokens, 1, <<>>, <<>>)

\* the forest, the stack and the errors of group_tokens_with_recovery
Recovering(root, stack, errors) == [root |-> root, stack |-> stack, errors |-> errors]

\* mutant: a group that is closed by force is put into the tree without an error
RECURSIVE pop_unfinished_groups_silently(_, _, _, _)
pop_unfinished_groups_silently(token, root, stack, errors) ==
    IF stack = <<>> THEN Recovering(root, stack, errors)
    ELSE LET last == stack[Len(stack)]
             closes == GroupRule_is_group(last.rule, last.start, token)
             group == Group(last.rule.name, last.start,
                            IF closes THEN Just(token) ELSE Nothing, last.forest)
             pushed == push_result(group, root, pop(stack))
         IN  IF closes THEN Recovering(pushed.root, pushed.stack, errors)
             ELSE pop_unfinished_groups_silently(token, pushed.root, pushed.stack, errors)

\* lines 101-118: pop unfinished groups until the one that matches is found
RECURSIVE pop_unfinished_groups(_, _, _, _)
pop_unfinished_groups(token, root, stack, errors) ==
    IF stack = <<>> THEN Recovering(root, stack, errors)
    ELSE LET last == stack[Len(stack)]
             closes == GroupRule_is_group(last.rule, last.start, token)
             group == Group(last.rule.name, last.start,
                            IF closes THEN Just(token) ELSE Nothing, last.forest)
             pushed == push_result(group, root, pop(stack))
         IN  IF closes THEN Recovering(pushed.root, pushed.stack, errors)
             ELSE pop_unfinished_groups(
                      token, pushed.root, pushed.stack,
                      Append(errors, unclosed_group(last.rule, last.start, Just(token))))

\* mutant: the groups still open at the end are dropped
tail_dropped(root, stack) == root

\* lines 132-147: the unclosed groups at the end; the errors are emitted in the
\* order of the stack, the groups are pushed from its top
RECURSIVE tail(_, _)
tail(root, stack) ==
    IF stack = <<>> THEN root
    ELSE LET last == stack[Len(stack)]
             group == Group(last.rule.name, last.start, Nothing, last.forest)
             pushed == push_result(group, root, pop(stack))
         IN  tail(pushed.root, pushed.stack)

tail_errors(stack) ==
    [k \in DOMAIN stack |-> unclosed_group(stack[k].rule, stack[k].start, Nothing)]

\* the loop of group_tokens_with_recovery from the i-th token, and the return
RECURSIVE recovery_loop(_, _, _, _, _, _)
recovery_loop(templates, tokens, i, root, stack, errors) ==
    IF i > Len(tokens)
    THEN [forest |-> tail(root, stack), errors |-> errors \o tail_errors(stack)]
    ELSE
    LET token == tokens[i]
        template == opens(templates, token)
        closing == try_to_close_group(token, root, stack)
        closes == can_close(templates, token)
        can_close_from_stack ==
            \E k \in DOMAIN stack : GroupRule_is_group(stack[k].rule, stack[k].start, token)
        popped == pop_unfinished_groups(token, root, stack, errors)
        pushed == push_result(Value(token), root, stack)
    IN  IF template # NoRule
        THEN recovery_loop(templates, tokens, i + 1, root,
                           Append(stack, StackEntry(template, token, <<>>)), errors)
        ELSE IF closing.closed
        THEN recovery_loop(templates, tokens, i + 1,
                           closing.building.root, closing.building.stack, errors)
        ELSE IF closes # NoRule
        THEN (IF can_close_from_stack
              THEN recovery_loop(templates, tokens, i + 1,
                                 popped.root, popped.stack, popped.errors)
              ELSE recovery_loop(templates, tokens, i + 1, root, stack,
                                 Append(errors, unexpected_group_end(closes, token))))
        ELSE recovery_loop(templates, tokens, i + 1, pushed.root, pushed.stack, errors)

group_tokens_with_recovery(templates, tokens) ==
    recovery_loop(templates, tokens, 1, <<>>, <<>>, <<>>)

\* the data of the tokens that tokenize of the tests gives: the six group tokens
\* and a word
TokenData == {"(", ")", "[", "]", "{", "}", "x"}

\* the token sequences of at most `most` tokens, each of one character
TokenSequences(most) ==
    UNION {{[k \in 1 .. n |-> TextToken(k - 1, word[k])] : word \in [1 .. n -> TokenData]}
           : n \in 0 .. most}

InitTokenTreeBuilder ==
    /\ earlier_unused
    /\ builder_unused
    /\ parser = <<>>
    /\ option_set = <<>>
    /\ tokenizer = <<>>
    /\ bv = <<>>
    /\ matcher = <<>>
    /\ token_tree_builder \in
          {[tokens |-> tokens, strict |-> NotCalled, recovered |-> NotCalled]
             : tokens \in TokenSequences(MaxTokens)}

\* builder.group_tokens(&tokens)
GroupTokens ==
    /\ token_tree_builder.strict = NotCalled
    /\ token_tree_builder' =
          [token_tree_builder EXCEPT
              !.strict = group_tokens(builder, token_tree_builder.tokens)]
    /\ UNCHANGED not_token_tree_builder

\* builder.group_tokens_with_recovery(&tokens)
GroupTokensWithRecovery ==
    /\ token_tree_builder.recovered = NotCalled
    /\ token_tree_builder' =
          [token_tree_builder EXCEPT
              !.recovered = group_tokens_with_recovery(builder, token_tree_builder.tokens)]
    /\ UNCHANGED not_token_tree_builder

NextTokenTreeBuilder == GroupTokens \/ GroupTokensWithRecovery

SpecTokenTreeBuilder == InitTokenTreeBuilder /\ [][NextTokenTreeBuilder]_vars


----------------------------------------------------------------------------
(* Tokenizer: src/src/parsers/tokens/_impl_tokenizer.rs                    *)
(* A &str is the sequence of its bytes; positions are byte offsets from 0. *)

\* the variables the tokenizer does not use
not_tokenizer ==
    <<earlier_vars, builder_vars, parser, option_set, token_tree_builder, bv, matcher>>

\* the bytes AC and B5 continue a character: C2 AC is the negation sign of
\* make_token_templates, C2 B5 is the micro sign, which no rule matches
is_continuation(byte) == byte \in {"AC", "B5"}

\* str::is_char_boundary
is_char_boundary(data, index) ==
    \/ index = 0
    \/ index = Len(data)
    \/ index < Len(data) /\ ~is_continuation(data[index + 1])

\* the number of bytes from `position` on that satisfy the test
run_length(data, position, test(_)) ==
    IF position >= Len(data) THEN 0
    ELSE CHOOSE n \in 0 .. (Len(data) - position) :
             /\ \A k \in 1 .. n : test(data[position + k])
             /\ n < Len(data) - position => ~test(data[position + n + 1])

\* \s
is_space(byte) == byte = " "

\* [a-z] and [a-zA-Z_]: the one letter of the inputs
is_letter(byte) == byte = "a"

\* whether the bytes of `word` stand at `position`
starts_with(data, position, word) ==
    /\ position + Len(word) <= Len(data)
    /\ SubSeq(data, position + 1, position + Len(word)) = word

\* make_token_templates, without the rules of characters that the inputs do not
\* have: the regex of each rule and the payload it makes
TokenTemplates ==
    <<[regex |-> "!", payload |-> "Neg"],
      [regex |-> "C2AC", payload |-> "Neg"],
      [regex |-> "\\s", payload |-> "Whitespace"],
      [regex |-> "([a-z]+):([a-z]+)", payload |-> "KeyValue"],
      [regex |-> "[a-zA-Z_]+", payload |-> "Identifier"]>>

\* TokenRule::try_match on &data[position..]: matched.end(), or 0 if the regex
\* does not match there
try_match(template, data, position) ==
    CASE template.regex = "!" -> IF starts_with(data, position, <<"!">>) THEN 1 ELSE 0
      [] template.regex = "C2AC" ->
            IF starts_with(data, position, <<"C2", "AC">>) THEN 2 ELSE 0
      [] template.regex = "\\s" -> IF run_length(data, position, is_space) > 0 THEN 1 ELSE 0
      [] template.regex = "([a-z]+):([a-z]+)" ->
            LET key == run_length(data, position, is_letter)
                value == run_length(data, position + key + 1, is_letter)
            IN  IF key > 0 /\ starts_with(data, position + key, <<":">>) /\ value > 0
                THEN key + 1 + value ELSE 0
      [] template.regex = "[a-zA-Z_]+" -> run_length(data, position, is_letter)

\* parsers::tokens::Token
PayloadToken(starts_at, data, payload) ==
    [starts_at |-> starts_at, data |-> data, payload |-> payload]

\* TokenizerError
TokenizerError(position, message) == [position |-> position, message |-> message]

\* Tokenizer::ignore_nothing and Tokenizer::ignoring_whitespace
Tokenizer_ignore_nothing(templates) == [ignore |-> "None", templates |-> templates]

Tokenizer_ignoring_whitespace(templates) == [ignore |-> "^\\s+", templates |-> templates]

\* unwrap_whitespace: the first position that the ignore regex does not match
unwrap_whitespace(self, data, position) ==
    IF self.ignore = "None" THEN position
    ELSE position + run_length(data, position, is_space)

\* match_token: Some(position to continue at) with the token pushed, or None
match_token(self, data, position, tokens) ==
    IF \E k \in DOMAIN self.templates : try_match(self.templates[k], data, position) > 0
    THEN LET k == CHOOSE k \in DOMAIN self.templates :
                      /\ try_match(self.templates[k], data, position) > 0
                      /\ \A j \in 1 .. (k - 1) : try_match(self.templates[j], data, position) = 0
             end == try_match(self.templates[k], data, position)
         IN  [some |-> TRUE,
              position |-> unwrap_whitespace(self, data, position + end),
              tokens |-> Append(tokens,
                                PayloadToken(position,
                                             SubSeq(data, position + 1, position + end),
                                             self.templates[k].payload))]
    ELSE [some |-> FALSE, position |-> position, tokens |-> tokens]

\* the thread panics: &data[position..position + 1] of the message is sliced
\* inside a character
Panicked == [ok |-> FALSE, panic |-> TRUE]

\* format!("Unexpected '{}'.", &data[position..position + 1]) can be evaluated
message_can_be_made(data, position) ==
    is_char_boundary(data, position) /\ is_char_boundary(data, position + 1)

Unexpected(data, position) == <<"Unexpected", data[position + 1]>>

\* the loop of read from `position`, and the return after it
RECURSIVE read_loop(_, _, _, _)
read_loop(self, data, position, tokens) ==
    IF position >= Len(data) THEN Success(tokens)
    ELSE LET next_position == match_token(self, data, position, tokens)
         IN  IF next_position.some
             THEN read_loop(self, data, next_position.position, next_position.tokens)
             ELSE IF ~message_can_be_made(data, position) THEN Panicked
             ELSE Failure(TokenizerError(position, Unexpected(data, position)))

read(self, data) == read_loop(self, data, unwrap_whitespace(self, data, 0), <<>>)

\* the loop of read_with_recovery from `position`, and the return after it
RECURSIVE recovery_read_loop(_, _, _, _, _, _)
recovery_read_loop(self, data, position, looking_for_recovery, tokens, errors) ==
    IF position >= Len(data) THEN [ok |-> TRUE, tokens |-> tokens, errors |-> errors]
    ELSE LET next_position == match_token(self, data, position, tokens)
         IN  IF next_position.some
             THEN recovery_read_loop(self, data, next_position.position, FALSE,
                                     next_position.tokens, errors)
             ELSE IF ~looking_for_recovery /\ ~message_can_be_made(data, position)
             THEN Panicked
             ELSE recovery_read_loop(
                      self, data, unwrap_whitespace(self, data, position + 1), TRUE, tokens,
                      IF looking_for_recovery THEN errors
                      ELSE Append(errors,
                                  TokenizerError(position, Unexpected(data, position))))

read_with_recovery(self, data) ==
    recovery_read_loop(self, data, unwrap_whitespace(self, data, 0), FALSE, <<>>, <<>>)

\* the characters of the inputs, each as its bytes in UTF-8: a letter, the
\* negation, a minus and a colon, which stand for no token, a space, and the
\* two-byte negation and micro signs
InputCharacters ==
    {<<"a">>, <<"!">>, <<"-">>, <<":">>, <<" ">>, <<"C2", "AC">>, <<"C2", "B5">>}

\* the bytes of a string of characters
RECURSIVE Bytes(_)
Bytes(characters) ==
    IF characters = <<>> THEN <<>> ELSE Head(characters) \o Bytes(Tail(characters))

\* the strings of at most `most` characters
Inputs(most) ==
    UNION {{Bytes(characters) : characters \in [1 .. n -> InputCharacters]}
           : n \in 0 .. most}

\* the tokenizers of the tests
Tokenizers ==
    {Tokenizer_ignoring_whitespace(TokenTemplates), Tokenizer_ignore_nothing(TokenTemplates)}

InitTokenizer ==
    /\ earlier_unused
    /\ builder_unused
    /\ parser = <<>>
    /\ option_set = <<>>
    /\ token_tree_builder = <<>>
    /\ bv = <<>>
    /\ matcher = <<>>
    /\ tokenizer \in
          {[self |-> self, data |-> data, read |-> NotCalled,
            read_with_recovery |-> NotCalled] : self \in Tokenizers, data \in Inputs(MaxCharacters)}

\* tokenizer.read(data)
Read ==
    /\ tokenizer.read = NotCalled
    /\ tokenizer' = [tokenizer EXCEPT !.read = read(tokenizer.self, tokenizer.data)]
    /\ UNCHANGED not_tokenizer

\* tokenizer.read_with_recovery(data)
ReadWithRecovery ==
    /\ tokenizer.read_with_recovery = NotCalled
    /\ tokenizer' =
          [tokenizer EXCEPT
              !.read_with_recovery = read_with_recovery(tokenizer.self, tokenizer.data)]
    /\ UNCHANGED not_tokenizer

NextTokenizer == Read \/ ReadWithRecovery

SpecTokenizer == InitTokenizer /\ [][NextTokenizer]_vars


----------------------------------------------------------------------------
(* BitVector58: src/src/collections/bitvectors/_impl_bit_vector_58.rs      *)
(* A u64 or an i32 is the set of the positions of its bits that are 1.     *)

\* the variables the bit vector does not use
not_bv ==
    <<earlier_vars, builder_vars, parser, option_set, token_tree_builder, tokenizer,
      matcher>>

\* the profile the crate is built with: with or without overflow checks (debug and release
\* profiles), with or without --cfg shields_up
Builds == [overflow_checks : BOOLEAN, shields_up : BOOLEAN]

\* the bits of a shift amount or a length, from a number
bits_of(number, width) == {k \in 0 .. (width - 1) : (number \div Pow2(k)) % 2 = 1}

\* the number that the bits from `low` up to `high` make
RECURSIVE number_of(_, _, _)
number_of(word, low, high) ==
    IF low > high THEN 0
    ELSE (IF low \in word THEN 1 ELSE 0) + 2 * number_of(word, low + 1, high)

\* a panic of the thread
Overflow == [panic |-> TRUE]

\* the value of an expression that does not panic
Bits(word) == [panic |-> FALSE, word |-> word]

\* 1 << index: the literal has no type of its own and the cast does not give it
\* one, so it is an i32; a shift by 32 or more panics with overflow checks and
\* is taken modulo 32 without
one_shl(profile, index) ==
    IF index >= 32
    THEN (IF profile.overflow_checks THEN Overflow ELSE Bits({index % 32}))
    ELSE Bits({index})

\* !x of an i32
not_i32(word) == (0 .. 31) \ word

\* x as u64 of an i32: the sign bit fills the upper half
i32_as_u64(word) == IF 31 \in word THEN word \cup (32 .. 63) ELSE word

\* check_access: panics when shields_up is set and the index is not in the vector
check_access(profile, word, index) ==
    profile.shields_up /\ index >= number_of(word, 58, 63)

\* BitVector58::empty: (len << 58) as u64 of a usize of 64 bits
BitVector58_empty(len) ==
    IF len > 58 THEN Overflow ELSE Bits({58 + k : k \in bits_of(len, 6)})

\* BitVector58::len
BitVector58_len(word) == number_of(word, 58, 63)

\* BitVector58::get: the value returned, or a panic
BitVector58_get(profile, word, index) ==
    IF check_access(profile, word, index) THEN Overflow
    ELSE LET shifted == one_shl(profile, index)
         IN  IF shifted.panic THEN Overflow
             ELSE [panic |-> FALSE, value |-> word \cap i32_as_u64(shifted.word) # {}]

\* BitVector58::set: the word after the call, or a panic
BitVector58_set(profile, word, index, value) ==
    IF check_access(profile, word, index) THEN Overflow
    ELSE LET shifted == one_shl(profile, index)
         IN  IF shifted.panic THEN Overflow
             ELSE IF value THEN Bits(word \cup i32_as_u64(shifted.word))
             ELSE Bits(word \cap i32_as_u64(not_i32(shifted.word)))

\* BitVector58::flip: the word after the call, or a panic
BitVector58_flip(profile, word, index) ==
    IF check_access(profile, word, index) THEN Overflow
    ELSE LET shifted == one_shl(profile, index)
             mask == i32_as_u64(shifted.word)
         IN  IF shifted.panic THEN Overflow
             ELSE Bits((word \ mask) \cup (mask \ word))

\* the lengths the vectors are created with: that of the test, one above the
\* width of an i32, and the largest
Lens == {10, 32, 58}

\* the indices the methods are called with: those of the test, the ones around
\* the width of an i32, and the largest
Indices == {2, 6, 30, 31, 32, 57}

\* a call of a method on the vector `before`, and what it returned
BitVectorCall(op, index, value, before, answer) ==
    [op |-> op, index |-> index, value |-> value, before |-> before, returned |-> answer]

\* the vector: the build profile, the length it was created with, its word, whether the
\* thread has panicked, and the last call
BitVector(profile, created, word, panicked, call) ==
    [profile |-> profile, created |-> created, word |-> word, panicked |-> panicked,
     call |-> call]

InitBitVector ==
    /\ earlier_unused
    /\ builder_unused
    /\ parser = <<>>
    /\ option_set = <<>>
    /\ token_tree_builder = <<>>
    /\ tokenizer = <<>>
    /\ matcher = <<>>
    /\ bv \in {BitVector(profile, len, BitVector58_empty(len).word, FALSE,
                         BitVectorCall("empty", len, FALSE, {}, <<>>))
                 : profile \in Builds, len \in Lens}

\* bv.get(index)
Get(index) ==
    /\ ~bv.panicked
    /\ LET answer == BitVector58_get(bv.profile, bv.word, index)
       IN  bv' = [bv EXCEPT !.panicked = answer.panic,
                            !.call = BitVectorCall("get", index, FALSE, bv.word, answer)]
    /\ UNCHANGED not_bv

\* bv.set(index, value)
Set(index, value) ==
    /\ ~bv.panicked
    /\ LET answer == BitVector58_set(bv.profile, bv.word, index, value)
       IN  bv' = [bv EXCEPT !.panicked = answer.panic,
                            !.word = IF answer.panic THEN @ ELSE answer.word,
                            !.call = BitVectorCall("set", index, value, bv.word, answer)]
    /\ UNCHANGED not_bv

\* bv.flip(index)
Flip(index) ==
    /\ ~bv.panicked
    /\ LET answer == BitVector58_flip(bv.profile, bv.word, index)
       IN  bv' = [bv EXCEPT !.panicked = answer.panic,
                            !.word = IF answer.panic THEN @ ELSE answer.word,
                            !.call = BitVectorCall("flip", index, FALSE, bv.word, answer)]
    /\ UNCHANGED not_bv

\* bv.len()
BvLen ==
    /\ ~bv.panicked
    /\ bv' = [bv EXCEPT !.call = BitVectorCall("len", 0, FALSE, bv.word,
                                               BitVector58_len(bv.word))]
    /\ UNCHANGED not_bv

NextBitVector ==
    \/ \E index \in Indices : Get(index)
    \/ \E index \in Indices, value \in BOOLEAN : Set(index, value)
    \/ \E index \in Indices : Flip(index)
    \/ BvLen

SpecBitVector == InitBitVector /\ [][NextBitVector]_vars

----------------------------------------------------------------------------
(* RecursiveGroupTokenMatcher:                                             *)
(* src/src/parsers/tokens2/_impl_group_token_matchers.rs, with the static  *)
(* matchers of src/src/parsers/tokens2/_impl_static_token_matchers.rs      *)

\* the variables the token matcher does not use
not_matcher ==
    <<earlier_vars, builder_vars, parser, option_set, token_tree_builder, tokenizer, bv>>

\* ConstTokenMatcher::new(name, value)
ConstTokenMatcher(name, value) == [matcher |-> "Const", name |-> name, value |-> value]

\* SequenceTokenMatcher::new(matchers)
SequenceTokenMatcher(matchers) == [matcher |-> "Sequence", matchers |-> matchers]

\* WeakUntilTokenMatcher::new(name, until)
WeakUntilTokenMatcher(name, until) ==
    [matcher |-> "WeakUntil", name |-> name, until |-> until]

\* `&data[i..]`
SliceFrom(data, i) == SubSeq(data, i + 1, Len(data))

\* StaticTokenMatcher::scan_token_static of the three matchers: Option<Vec<String>>
RECURSIVE scan_token_static(_, _)
\* the loop of WeakUntilTokenMatcher::scan_token_static from position i
RECURSIVE weak_until_loop(_, _, _)
scan_token_static(m, data) ==
    CASE m.matcher = "Const" ->
            IF starts_with(data, 0, m.value) THEN Just(<<m.name, m.value>>) ELSE Nothing
      [] m.matcher = "Sequence" ->
            IF \E k \in DOMAIN m.matchers : scan_token_static(m.matchers[k], data).some
            THEN scan_token_static(
                     m.matchers[CHOOSE k \in DOMAIN m.matchers :
                                   /\ scan_token_static(m.matchers[k], data).some
                                   /\ \A j \in 1 .. (k - 1) :
                                         ~scan_token_static(m.matchers[j], data).some],
                     data)
            ELSE Nothing
      [] m.matcher = "WeakUntil" -> weak_until_loop(m, data, 0)

weak_until_loop(m, data, i) ==
    IF i < Len(data)
    THEN LET blocker == scan_token_static(m.until, SliceFrom(data, i))
         IN  IF blocker.some
             THEN (IF i = 0 THEN Nothing
                   ELSE Just(<<m.name, SubSeq(data, 1, i)>> \o blocker.value))
             ELSE weak_until_loop(m, data, i + 1)
    ELSE Just(<<m.name, data>>)

\* RecursiveGroupTokenMatcher::new(open, close, body)
RecursiveGroupTokenMatcher(open, close, body) ==
    [open |-> open, close |-> close, body |-> body]

\* the state of the body matcher: S = (), and S::default() for a static matcher
Unit == "()"

body_clean_state(body) == Unit

\* RecursiveGroupTokenMatcher::clean_state
clean_state(m) == Nothing

\* mutant: an emptied stack is kept as the state
stack_pop_keep(stack) == Just(SubSeq(stack, 1, Len(stack) - 1))

\* lines 68-71: `stack.pop(); if stack.is_empty() { *state = None; }`
stack_pop(stack) ==
    IF Len(stack) <= 1 THEN Nothing ELSE Just(SubSeq(stack, 1, Len(stack) - 1))

\* what scan_token returns and the state it leaves
Scanned_token(state, payload) == [state |-> state, payload |-> payload]

\* RecursiveGroupTokenMatcher::scan_token(&mut state, data)
scan_token(m, state, data) ==
    LET open == scan_token_static(m.open, data)
        close == scan_token_static(m.close, data)
    IN  IF state.some
        THEN (IF open.some
              THEN Scanned_token(Just(Append(state.value, body_clean_state(m.body))), open)
              ELSE IF close.some
              THEN Scanned_token(stack_pop(state.value), close)
              ELSE Scanned_token(state, scan_token_static(m.body, data)))
        ELSE (IF open.some
              THEN Scanned_token(Just(<<body_clean_state(m.body)>>), open)
              ELSE Scanned_token(state, open))

\* the characters of the strings scanned
DataCharacters == {"/", "*", "x"}

\* the strings of at most `most` characters
DataStrings(most) == UNION {[1 .. n -> DataCharacters] : n \in 0 .. most}

\* the matchers: the block comments of test_recursive_group_token_matcher, and
\* groups whose opening and closing tokens overlap or are the same string
Matchers ==
    {RecursiveGroupTokenMatcher(
         open, close,
         WeakUntilTokenMatcher("block-content", SequenceTokenMatcher(<<open, close>>)))
       : open \in {ConstTokenMatcher("block-open", <<"/", "*">>),
                   ConstTokenMatcher("block-open", <<"*">>)},
         close \in {ConstTokenMatcher("block-close", <<"*", "/">>),
                    ConstTokenMatcher("block-close", <<"*">>)}}

\* the payload has the name of the rule
Named(payload, name) == payload.some /\ payload.value[1] = name

\* a matcher, its state, the calls of scan_token so far, how many of them matched
\* an opening and a closing token, and what the last call returned
TokenMatcher(m, state, scans, opened, closed, payload) ==
    [m |-> m, state |-> state, scans |-> scans, opened |-> opened, closed |-> closed,
     payload |-> payload]

\* `let mut state = block_matcher.clean_state();`
InitMatcher ==
    /\ earlier_unused
    /\ builder_unused
    /\ parser = <<>>
    /\ option_set = <<>>
    /\ token_tree_builder = <<>>
    /\ tokenizer = <<>>
    /\ bv = <<>>
    /\ matcher \in {TokenMatcher(m, clean_state(m), 0, 0, 0, Nothing) : m \in Matchers}

\* block_matcher.scan_token(&mut state, data)
ScanToken(data) ==
    /\ matcher.scans < MaxScans
    /\ LET scanned == scan_token(matcher.m, matcher.state, data)
       IN  matcher' =
               TokenMatcher(matcher.m, scanned.state, matcher.scans + 1,
                            matcher.opened + (IF Named(scanned.payload, "block-open")
                                              THEN 1 ELSE 0),
                            matcher.closed + (IF Named(scanned.payload, "block-close")
                                              THEN 1 ELSE 0),
                            scanned.payload)
    /\ UNCHANGED not_matcher

NextMatcher == \E data \in DataStrings(MaxData) : ScanToken(data)

SpecMatcher == InitMatcher /\ [][NextMatcher]_vars

----------------------------------------------------------------------------
(* Properties of the reachability engine *)

Returned == main = "returned"

\* the states reachable from S along edges whose label contains p
RECURSIVE PathClosure(_, _)
PathClosure(S, p) ==
    LET T == S \cup UNION {{graph[s][k][1] : k \in {j \in 1 .. NumVars : p \in graph[s][j][2]}} : s \in S}
    IN  IF T = S THEN S ELSE PathClosure(T, p)

ReachableFor(p) == PathClosure({s0 \in States : p \in initial[s0]}, p)

\* C1: when reachability returns, p is in out[s] if and only if some state s0 with
\* p in init[s0] has a (possibly empty) path to s along edges whose label contains p.
C1_ExactReachableSet ==
    Returned =>
        \A s \in States, p \in Params : p \in actual_result[s] <=> s \in ReachableFor(p)

\* C2: the output contains the initial labels and is closed under the edge rule:
\* out[s] /\ edge_params(s, v) is a subset of out[s'] for every edge (s, v) -> s'.
C2_MonotoneFixedPoint ==
    Returned =>
        /\ \A s \in States : initial[s] \subseteq actual_result[s]
        /\ \A s \in States, k \in 1 .. NumVars :
              (actual_result[s] \cap graph[s][k][2]) \subseteq actual_result[graph[s][k][1]]

\* C3: for fixed graph, evolution operator and initial labels the output is the
\* same for every worker count and every interleaving: a second run on the same
\* inputs returns what the first run returned.
C3_SameOutputEveryRun ==
    (Returned /\ previous_result # <<>>) => actual_result = previous_result

\* C4: under fair scheduling every worker leaves its loop and reachability returns.
C4_Terminates == <>Returned

\* C5: every label cell only grows: each step of the engine leaves every cell a
\* superset of its value before the step.
C5_CellsOnlyGrow == [][\A s \in States : items[s] \subseteq items'[s]]_vars

\* a worker has added to a cell a parametrization that the initial vector did not
\* put there
C5_Witness ==
    /\ main = "spawn"
    /\ \E s \in States : ~(items[s] \subseteq initial[s])

----------------------------------------------------------------------------
(* Properties of LockFreeArray *)

\* the threads running the closure on the cell, or about to release it
InClosure == {t \in DOMAIN threads : threads[t].pc \in {"closure_read", "closure_write", "release"}}

RECURSIVE SumCount(_)
SumCount(n) == IF n = 0 THEN 0 ELSE threads[n].count + SumCount(n - 1)

\* C6: update gives per-cell mutual exclusion without lost updates: at most one
\* closure runs on the cell at a time, the busy flag is set exactly while one
\* does, the closure has run exactly once for every call that returned Some and the
\* one in progress (never for a call that returned None), and when the threads are
\* joined the cell holds ArrayThreads * ArrayTarget.
C6_MutualExclusionNoLostUpdate ==
    /\ Cardinality(InClosure) <= 1
    /\ busy[ArrayPosition] <=> InClosure # {}
    /\ items[ArrayPosition] =
          SumCount(ArrayThreads) + Cardinality({t \in InClosure : threads[t].pc = "release"})
    /\ \A i \in DOMAIN items : i # ArrayPosition => items[i] = 0 /\ ~busy[i]
    /\ main = "joined" => items[ArrayPosition] = ArrayThreads * ArrayTarget

\* one thread is running the closure while a call of another thread has found the
\* cell busy and returned None
C6_Witness ==
    \E t, u \in DOMAIN threads :
        /\ threads[t].pc = "closure_write"
        /\ threads[u].pc = "update"
        /\ threads[u].update = "None"

----------------------------------------------------------------------------
(* Properties of LockFreeArrayQueue *)

Bit(b) == IF b THEN 1 ELSE 0

\* C7: for every position the number of set calls that returned true minus the
\* number of next calls that returned it equals the value of its bit, so that the
\* two counts are equal once the queue is drained.
C7_InsertedMinusExtractedIsBit ==
    \A i \in Positions : counts[i].inserted - counts[i].extracted = Bit(queue[i])

\* a position inserted, extracted and inserted again, the last set overlapping a
\* call of next that is in progress
C7_Witness ==
    /\ \E i \in Positions : counts[i].inserted = 2 /\ counts[i].extracted = 1
    /\ returned.op = "set" /\ returned.result.some
    /\ \E t \in DOMAIN threads : threads[t].pc = "scan" /\ threads[t].interfered

\* a call of op returns in this step
Returns(op) == returned'.calls = returned.calls + 1 /\ returned'.op = op

\* the bits when the call that thread t is about to return from began
CallBefore(t) == IF threads[t].pc = "scan" THEN threads[t].before ELSE queue

\* C8: set(i) returns true exactly when bit i was false immediately before it, bit i
\* is true immediately after it and no other bit changes; of the calls of set(i)
\* since i was last extracted exactly one returned true.
C8_SetIsTestAndSet ==
    /\ [](\A i \in Positions : counts[i].set_calls >= 1 => counts[i].set_true = 1)
    /\ [][Returns("set") =>
            /\ returned'.result.some = ~queue[returned'.arg]
            /\ queue' = [queue EXCEPT ![returned'.arg] = TRUE]]_vars

\* a position extracted and then set three times, the last set returning false as
\* the second set(7) of single_thread_test
C8_Witness ==
    /\ returned.op = "set"
    /\ ~returned.result.some
    /\ counts[returned.arg].set_calls = 3
    /\ counts[returned.arg].extracted = 1

Min(S) == CHOOSE i \in S : \A j \in S : i <= j

\* C9: a call next(start) that no other call overlaps returns Some(i) for the
\* smallest i >= start whose bit is set and clears exactly that bit, or returns None
\* and changes nothing when no bit at or after start is set.
C9_NextTakesFirstSetBit ==
    [][(Returns("next") /\ ~returned'.interfered) =>
          LET before == CallBefore(returned'.thread)
              set_bits == {j \in Positions : j >= returned'.arg /\ before[j]}
          IN  IF set_bits = {}
              THEN returned'.result = None /\ queue' = before
              ELSE /\ returned'.result = Some(Min(set_bits))
                   /\ queue' = [before EXCEPT ![Min(set_bits)] = FALSE]]_vars

\* an uninterrupted next(1) has returned Some(2) past the set bit 0, which stays set
C9_Witness ==
    /\ returned.op = "next"
    /\ ~returned.interfered
    /\ returned.arg = 1
    /\ returned.result = Some(2)
    /\ queue[0]
    /\ counts[2].extracted = 1

----------------------------------------------------------------------------
(* Properties of BooleanAsyncGraph *)

\* the items the live iterators have yielded
Yielded(dir) == IF iterators[dir] = <<>> THEN {}
                ELSE {iterators[dir].yielded[k] : k \in DOMAIN iterators[dir].yielded}

\* C10: every edge label that an iterator of fwd().step(s) or bwd().step(s) yields
\* is a subset of unit_params().
C10_LabelsWithinUnit ==
    \A dir \in {"fwd", "bwd"} : \A item \in Yielded(dir) :
        item.params \subseteq unit_params(async_graph.graph)

\* both iterators have yielded the edge of every variable, and the parameters of one
\* of the forward edges, as edge_params computes them, are not within unit_params()
C10_Witness ==
    /\ Cardinality(Yielded("fwd")) = NumVars
    /\ Cardinality(Yielded("bwd")) = NumVars
    /\ \E var \in Vars :
          ~(edge_params_of(async_graph.graph, iterators.fwd.state, var)
                \subseteq unit_params(async_graph.graph))

\* the value of the update function f in the state under the parametrization p
RECURSIVE ValueUnder(_, _, _, _)
ValueUnder(n, f, state, p) ==
    CASE f.op = "Variable" -> is_set(state, f.id)
      [] f.op = "Parameter" -> evaluate_parameter(n, state, f.id, f.inputs) \in p
      [] f.op = "Not" -> ~ValueUnder(n, f.a, state, p)
      [] f.op = "And" -> ValueUnder(n, f.a, state, p) /\ ValueUnder(n, f.b, state, p)
      [] f.op = "Or" -> ValueUnder(n, f.a, state, p) \/ ValueUnder(n, f.b, state, p)
      [] f.op = "Imp" -> ValueUnder(n, f.a, state, p) => ValueUnder(n, f.b, state, p)

\* the value the variable is updated to in the state under p: its update function,
\* or the row of its anonymous table that the regulators select
UpdatedValue(n, variable, state, p) ==
    IF n.update_functions[variable + 1] # NoFunction
    THEN ValueUnder(n, n.update_functions[variable + 1], state, p)
    ELSE evaluate_anonymous_parameter(n, state, variable) \in p

StatesOff(variable) == {x \in States : ~is_set(x, variable)}

\* the parametrization p satisfies the regulation: the function of the target is
\* monotonous in the source as the effect says, and depends on it if observable
Satisfies(n, p, regulation) ==
    LET off(x) == UpdatedValue(n, regulation.target, x, p)
        on(x) == UpdatedValue(n, regulation.target, flip_bit(x, regulation.source), p)
    IN  /\ regulation.effect = "ACTIVATION" =>
              \A x \in StatesOff(regulation.source) : off(x) => on(x)
        /\ regulation.effect = "INHIBITION" =>
              \A x \in StatesOff(regulation.source) : on(x) => off(x)
        /\ regulation.observable =>
              \E x \in StatesOff(regulation.source) : on(x) # off(x)

Admissible(n) ==
    {p \in mk_true(n) : \A k \in DOMAIN n.regulations : Satisfies(n, p, n.regulations[k])}

C13_ErrIffNoneAdmissible ==
    async_graph # <<>> =>
        (~async_graph.ok <=> (network.num_vars > 32 \/ Admissible(network) = {}))

\* the variables for which step(s) of both directions, called on the same state s,
\* has yielded an edge: the forward label is edge_params(s, v) within the unit set,
\* the backward label edge_params(s XOR (1 << v), v) within the unit set
BothYielded ==
    IF iterators.fwd # <<>> /\ iterators.bwd # <<>>
          /\ iterators.fwd.state = iterators.bwd.state
    THEN {k - 1 : k \in DOMAIN iterators.fwd.yielded \cap DOMAIN iterators.bwd.yielded}
    ELSE {}

Exhausted(dir) == iterators[dir] # <<>> /\ iterators[dir].variables = network.num_vars

\* the edge between the states of the two iterators, with the label this item has
Reverse(dir, item) == [state |-> iterators[dir].state, params |-> item.params]

----------------------------------------------------------------------------
(* Properties of BddParameterEncoder *)

Distinct(args) == \A j, k \in DOMAIN args : j # k => args[j] # args[k]

\* C16: for every state and list args of distinct variables, packing the table index
\* of the state back into a state gives the bits of the state on args:
\* pack_table_index_into_state_id(compute_table_index(state, args), args) and state
\* agree on every bit of args.
C16_PackInvertsTableIndex ==
    (encoder.op = "compute_table_index" /\ Distinct(encoder.args)) =>
        \A k \in DOMAIN encoder.args :
            is_set(pack_table_index_into_state_id(encoder.result, encoder.args),
                   encoder.args[k])
                = is_set(encoder.state, encoder.args[k])

\* the sum over i < k of state.is_set(args[i]) * 2^(Len(args) - 1 - i)
RECURSIVE DigitSum(_, _, _)
DigitSum(state, args, k) ==
    IF k = 0 THEN 0
    ELSE DigitSum(state, args, k - 1)
         + (IF is_set(state, args[k]) THEN Pow2(Len(args) - k) ELSE 0)

\* C17: compute_table_index returns the number whose binary digits are the bits of
\* the state at the arguments, the first argument the most significant: the sum of
\* is_set(a_i) * 2^(k-1-i); it is 0 for no arguments and always below 2^k.
C17_TableIndexIsDigits ==
    encoder.op = "compute_table_index" =>
        /\ encoder.result = DigitSum(encoder.state, encoder.args, Len(encoder.args))
        /\ encoder.args = <<>> => encoder.result = 0
        /\ encoder.result < Pow2(Len(encoder.args))

\* compute_table_index(0b01, [a, b]) has returned 2: a is the most significant digit
C17_Witness ==
    /\ encoder.op = "compute_table_index"
    /\ encoder.state = 1
    /\ encoder.args = <<0, 1>>
    /\ encoder.result = 2

\* the tuple (state.test(args[0]), ..., state.test(args[k-1]))
Tests(state, args) == [k \in DOMAIN args |-> is_set(state, args[k])]

\* C18: for one named parameter, evaluate_parameter returns the same BDD variable
\* for (s1, args1) and (s2, args2) exactly when the tuples of the bits of s1 at
\* args1 and of s2 at args2 are equal: bits outside args are ignored,
\* (0b11, [a, b]) and (0b11, [b, a]) agree, (0b01, [a, b]) and (0b01, [b, a]) differ.
C18_SameVariableIffSameTests ==
    encoder.op = "evaluate_parameter" =>
        \A s2 \in States, args2 \in ArgLists :
            Len(args2) = network.parameters[encoder.id + 1] =>
                ((evaluate_parameter(network, s2, encoder.id, args2) = encoder.result)
                    <=> (Tests(s2, args2) = Tests(encoder.state, encoder.args)))

\* p(b, a) has been evaluated in 0b01 in the network of the test, and p(a, b) has
\* another BDD variable there
C18_Witness ==
    /\ network = explicit_parameter_network
    /\ encoder.op = "evaluate_parameter"
    /\ encoder.id = 0
    /\ encoder.state = 1
    /\ encoder.args = <<1, 0>>
    /\ encoder.result # evaluate_parameter(network, 1, 0, <<0, 1>>)
    /\ evaluate_parameter(network, 3, 0, <<1, 0>>)
           = evaluate_parameter(network, 3, 0, <<0, 1>>)

RECURSIVE Sum(_)
Sum(numbers) == IF numbers = <<>> THEN 0 ELSE Head(numbers) + Sum(Tail(numbers))

\* the rows of the tables of the named parameters, and of the variables without
\* an update function
ParameterRows(n) == [p \in DOMAIN n.parameters |-> Pow2(n.parameters[p])]

AnonymousRows(n) ==
    [v \in DOMAIN n.update_functions |->
        IF n.update_functions[v] = NoFunction
        THEN Pow2(Cardinality({r \in DOMAIN n.regulations :
                                  n.regulations[r].target = v - 1}))
        ELSE 0]

\* every evaluation the encoder of the network answers: the table, the row, the
\* BDD variable returned
Evaluations(n) ==
    {[table |-> <<"parameter", p>>,
      row |-> Tests(state, args),
      variable |-> evaluate_parameter(n, state, p, args)] :
        <<p, state, args>> \in
            {x \in (0 .. (Len(n.parameters) - 1)) \X States \X ArgLists :
                Len(x[3]) = n.parameters[x[1] + 1]}}
    \cup
    {[table |-> <<"anonymous", v>>,
      row |-> Tests(state, get_regulators(n, v)),
      variable |-> evaluate_anonymous_parameter(n, state, v)] :
        <<v, state>> \in
            {x \in (0 .. (n.num_vars - 1)) \X States :
                n.update_functions[x[1] + 1] = NoFunction}}

\* C19: one BDD variable per table row, none shared: the encoder has as many BDD
\* variables as the sum of 2^arity over the named parameters plus the sum of
\* 2^|regulators| over the variables without update function; different
\* (table, row) pairs have different BDD variables; every BDD variable is
\* returned by one of the evaluate functions in some state.
C19_OneVariablePerRow ==
    /\ Cardinality(bdd_variable_set(network))
           = Sum(ParameterRows(network)) + Sum(AnonymousRows(network))
    /\ \A e1, e2 \in Evaluations(network) :
           (e1.table # e2.table \/ e1.row # e2.row) => e1.variable # e2.variable
    /\ \A var \in bdd_variable_set(network) :
           \E e \in Evaluations(network) : e.variable = var
    /\ encoder.op \in {"evaluate_parameter", "evaluate_anonymous_parameter"} =>
           encoder.result \in bdd_variable_set(network)

\* in the network of the mixed test (p of arity 2, b without update function and
\* with one regulator) the anonymous parameter of b has been evaluated to the last
\* of the six BDD variables
C19_Witness ==
    /\ network = mixed_parameter_network
    /\ Cardinality(bdd_variable_set(network)) = 6
    /\ encoder.op = "evaluate_anonymous_parameter"
    /\ encoder.result = 5

-----------------------------------------------------------------------------
(* Properties of BddParams                                                 *)

\* BddParams values that BooleanAsyncGraph::new builds and tests for the network:
\* the unit set of the fake graph, the empty set, the condition of the regulations
BddParamsValues == {mk_true(network), mk_false(network), new_condition(network)}

\* C20: x.is_empty() is true exactly when the BDD of x is the constant false, and so
\* a.is_subset_of(b) is true exactly when every parametrization of a is in b.
C20_IsEmptyIffFalse ==
    /\ \A x \in BddParamsValues : BddParams_is_empty(x) <=> is_false(x)
    /\ \A a, b \in BddParamsValues : BddParams_is_subset_of(a, b) <=> (a \subseteq b)

----------------------------------------------------------------------------
(* Properties of the network builder *)

\* the nodes Parameter { id, inputs } of an update function
RECURSIVE ParameterNodes(_)
ParameterNodes(f) ==
    CASE f.op = "Parameter" -> {f}
      [] f.op \in {"Variable", "None"} -> {}
      [] f.op = "Not" -> ParameterNodes(f.a)
      [] OTHER -> ParameterNodes(f.a) \cup ParameterNodes(f.b)

\* C21: in every network that calls of add_update_function produce, whether they
\* succeed or fail, every parameter node of every stored update function has as
\* many inputs as the cardinality the network declares for the parameter, also when
\* one name occurs several times in one text.
C21_InputsMatchCardinality ==
    bn # <<>> =>
        \A v \in DOMAIN bn.update_functions :
            \A node \in ParameterNodes(bn.update_functions[v]) :
                /\ node.id < Len(bn.parameters)
                /\ Len(node.inputs) = get_parameter(bn, node.id).cardinality

\* the names and numbers of inputs of the parameters of a parsed text: the nodes
\* name(inputs), and the names that stand alone
RECURSIVE Uses(_)
Uses(t) ==
    CASE t.op = "Parameter" -> {<<t.name, Len(t.inputs), "call">>}
      [] t.op = "Variable" -> {<<t.name, 0, "atom">>}
      [] t.op = "Not" -> Uses(t.a)
      [] OTHER -> Uses(t.a) \cup Uses(t.b)

IsVariable(name) == \E i \in DOMAIN bn.regulatory_graph.variables :
                        bn.regulatory_graph.variables[i] = name

\* var_name is not a variable of the network
UnknownVariable(variable) == ~IsVariable(variable)

\* var_name already has an update function
FunctionSet(variable) ==
    \E i \in DOMAIN bn.regulatory_graph.variables :
        /\ bn.regulatory_graph.variables[i] = variable
        /\ bn.update_functions[i] # NoFunction

\* the text uses the name of a variable as a parameter with an argument list
VariableAsParameter(text) ==
    /\ TemplateOf[text].ok
    /\ \E use \in Uses(TemplateOf[text].value) : use[3] = "call" /\ IsVariable(use[1])

\* the text uses a parameter the network has with another cardinality
OtherCardinality(text) ==
    /\ TemplateOf[text].ok
    /\ \E use \in Uses(TemplateOf[text].value), k \in DOMAIN bn.parameters :
           /\ ~IsVariable(use[1])
           /\ bn.parameters[k].name = use[1]
           /\ bn.parameters[k].cardinality # use[2]

\* C22: add_update_function(var_name, text) returns an error and stores no function
\* when var_name is not a variable, when var_name already has a function, when the
\* text uses a variable name as a parameter with arguments, and when it uses a
\* parameter with a cardinality other than the one declared earlier.
C22_RejectedCallsStoreNothing ==
    [][(/\ bn # <<>>
        /\ last_call'.op = "add_update_function"
        /\ \/ UnknownVariable(last_call'.arguments[1])
           \/ FunctionSet(last_call'.arguments[1])
           \/ VariableAsParameter(last_call'.arguments[2])
           \/ OtherCardinality(last_call'.arguments[2]))
           => (/\ ~last_call'.ok
               /\ bn'.update_functions = bn.update_functions)]_vars

\* as in test_invalid_update_function: p is declared without inputs by the function
\* of a, and a call for b using p with another cardinality has been rejected
C22_Witness ==
    /\ bn # <<>>
    /\ last_call.op = "add_update_function"
    /\ ~last_call.ok
    /\ last_call.error = "appears with cardinality"
    /\ last_call.arguments = <<"b", Text(<<"p", "(", "a", ")", " ", "=>", " ", "a">>)>>
    /\ bn.parameters = <<BNParameter("p", 0)>>
    /\ bn.update_functions[1] # NoFunction
    /\ bn.update_functions[2] = NoFunction

\* the names a parsed text mentions as atoms or as inputs of parameters
RECURSIVE Mentions(_)
Mentions(t) ==
    CASE t.op = "Parameter" -> {t.inputs[k] : k \in DOMAIN t.inputs}
      [] t.op = "Variable" -> {t.name}
      [] t.op = "Not" -> Mentions(t.a)
      [] OTHER -> Mentions(t.a) \cup Mentions(t.b)

\* the regulatory graph has a regulation from the variable `source` to `target`
Regulates(source, target) ==
    \E k \in DOMAIN bn.regulatory_graph.regulations :
        LET regulation == bn.regulatory_graph.regulations[k]
        IN  /\ bn.regulatory_graph.variables[regulation.source + 1] = source
            /\ bn.regulatory_graph.variables[regulation.target + 1] = target

\* C23: add_update_function(t, text) returns an error whenever the text mentions a
\* variable that has no regulation into t, as an atom or as an argument of a
\* parameter.
C23_UnregulatedVariableIsRejected ==
    [][(/\ bn # <<>>
        /\ last_call'.op = "add_update_function"
        /\ IsVariable(last_call'.arguments[1])
        /\ TemplateOf[last_call'.arguments[2]].ok
        /\ \E name \in Mentions(TemplateOf[last_call'.arguments[2]].value) :
               IsVariable(name) /\ ~Regulates(name, last_call'.arguments[1]))
           => ~last_call'.ok]_vars

\* C24: a RegulatoryGraph has at most one regulation for each (source, target), and
\* a call of add_regulation with an unknown source or target, or for a pair that has
\* a regulation, returns an error and leaves the regulations as they were.
C24_OneRegulationPerPair ==
    /\ [](\A i, j \in DOMAIN rg.regulations :
             (/\ rg.regulations[i].source = rg.regulations[j].source
              /\ rg.regulations[i].target = rg.regulations[j].target) => i = j)
    /\ [][(/\ last_call'.op = "add_regulation"
           /\ LET source == last_call'.arguments[1]
                  target == last_call'.arguments[2]
                  Known(name) == \E i \in DOMAIN rg.variables : rg.variables[i] = name
              IN  \/ ~Known(source)
                  \/ ~Known(target)
                  \/ \E k \in DOMAIN rg.regulations :
                         /\ rg.variables[rg.regulations[k].source + 1] = source
                         /\ rg.variables[rg.regulations[k].target + 1] = target)
              => (~last_call'.ok /\ rg'.regulations = rg.regulations)]_vars

\* a second regulation from a to b has been refused, the graph keeps the first
C24_Witness ==
    /\ last_call.op = "add_regulation"
    /\ last_call.arguments = <<"a", "b">>
    /\ last_call.error = "already defined"
    /\ Len(rg.regulations) = 2
    /\ rg.regulations[1].source = 0
    /\ rg.regulations[1].target = 1


----------------------------------------------------------------------------
(* Properties of the network of test_no_param_network *)

\* the pairs (s, s') of the edges the test expects, as numbers: bit v is variable v
NoParamEdges == {<<0, 2>>, <<2, 0>>, <<1, 3>>, <<3, 2>>}

----------------------------------------------------------------------------
(* Properties of the parser of update functions *)

\* the template of the operator written as `word`
Node(word, left, right) ==
    CASE word = "^" -> Xor(left, right)
      [] word = "&" -> And(left, right)
      [] word = "|" -> Or(left, right)
      [] word = "=>" -> Imp(left, right)
      [] word = "<=>" -> Iff(left, right)

LeftAssociative(word, x, y, z) ==
    Node(word, Node(word, TemplateVariable(x), TemplateVariable(y)), TemplateVariable(z))

RightAssociative(word, x, y, z) ==
    Node(word, TemplateVariable(x), Node(word, TemplateVariable(y), TemplateVariable(z)))

\* C26: a chain of one binary operator is grouped by the declared associativity:
\* `a ^ b ^ c`, `a & b & c` and `a | b | c` parse as ((a op b) op c), while
\* `a => b => c` and `a <=> b <=> c` parse as (a op (b op c)).
C26_ChainsFollowAssociativity ==
    \A x \in Operands, y \in Operands, z \in Operands, word \in Operators :
        (parser.value = Chain(x, word, y, word, z) /\ parser.returned # NotCalled) =>
            parser.returned =
                Success(IF word \in {"=>", "<=>"} THEN RightAssociative(word, x, y, z)
                        ELSE LeftAssociative(word, x, y, z))


----------------------------------------------------------------------------
(* Properties of Set for Option<T> *)

\* the set that a value of Option<T> denotes: None is the empty set of T
Denotes(a) == IF a.some THEN a.value ELSE ExplicitSet_empty

\* C27: each of union, intersect, minus, is_empty and is_subset of Option<T> gives
\* the same answer, as a set, as the operation of T applied to the arguments with
\* None replaced by the empty set of T.
C27_OptionLiftsSet ==
    LET a == Denotes(option_set.self)
        b == Denotes(option_set.other)
    IN  /\ option_set.op = "union" =>
              Denotes(option_set.returned) = ExplicitSet_union(a, b)
        /\ option_set.op = "intersect" =>
              Denotes(option_set.returned) = ExplicitSet_intersect(a, b)
        /\ option_set.op = "minus" =>
              Denotes(option_set.returned) = ExplicitSet_minus(a, b)
        /\ option_set.op = "is_empty" =>
              option_set.returned = ExplicitSet_is_empty(a)
        /\ option_set.op = "is_subset" =>
              option_set.returned = ExplicitSet_is_subset(a, b)


----------------------------------------------------------------------------
(* Properties of TokenTreeBuilder *)

\* both methods have been called on the tokens
BothGrouped ==
    token_tree_builder.strict # NotCalled /\ token_tree_builder.recovered # NotCalled

\* C28: group_tokens returns Ok(forest) if and only if group_tokens_with_recovery
\* returns that same forest with an empty error list; when group_tokens returns an
\* error, group_tokens_with_recovery reports at least one error.
C28_RecoveryAgreesWithGroupTokens ==
    BothGrouped =>
        LET strict == token_tree_builder.strict
            recovered == token_tree_builder.recovered
        IN  /\ strict.ok =>
                  recovered.forest = strict.value /\ recovered.errors = <<>>
            /\ recovered.errors = <<>> =>
                  strict.ok /\ strict.value = recovered.forest
            /\ ~strict.ok => Len(recovered.errors) >= 1

\* both methods have returned for `([)]`: group_tokens fails at the `)`, the
\* recovery closes the brackets by force and reports them and the stray `]`
C28_Witness ==
    /\ BothGrouped
    /\ Len(token_tree_builder.tokens) = 4
    /\ [k \in 1 .. 4 |-> token_tree_builder.tokens[k].data] = <<"(", "[", ")", "]">>
    /\ ~token_tree_builder.strict.ok
    /\ token_tree_builder.strict.error.ends_at = Just(2)
    /\ Len(token_tree_builder.recovered.errors) = 2
    /\ Len(token_tree_builder.recovered.forest) = 1
    /\ token_tree_builder.recovered.forest[1].close = Just(TextToken(2, ")"))
    /\ token_tree_builder.recovered.forest[1].data[1].close = Nothing


----------------------------------------------------------------------------
(* Properties of Tokenizer *)

\* no rule of the tokenizer matches at the position
NoRuleMatches(self, data, position) == ~match_token(self, data, position, <<>>).some

\* the positions at which the tokenizer looks for a token, in order: after a
\* token the position behind it, after an unmatched position the next one, both
\* moved over what the tokenizer ignores
RECURSIVE ScanPositions(_, _, _)
ScanPositions(self, data, position) ==
    IF position >= Len(data) THEN <<>>
    ELSE <<position>>
         \o ScanPositions(self, data,
                      IF NoRuleMatches(self, data, position)
                      THEN unwrap_whitespace(self, data, position + 1)
                      ELSE match_token(self, data, position, <<>>).position)

Scanned == ScanPositions(tokenizer.self, tokenizer.data,
                     unwrap_whitespace(tokenizer.self, tokenizer.data, 0))

Unmatched(k) == NoRuleMatches(tokenizer.self, tokenizer.data, Scanned[k])

\* the first positions of the maximal runs of unmatched positions
RECURSIVE RunStarts(_)
RunStarts(k) ==
    IF k > Len(Scanned) THEN <<>>
    ELSE (IF Unmatched(k) /\ (k = 1 \/ ~Unmatched(k - 1)) THEN <<Scanned[k]>> ELSE <<>>)
         \o RunStarts(k + 1)

\* the tokens of the positions at which a rule matches
RECURSIVE MatchedTokens(_)
MatchedTokens(k) ==
    IF k > Len(Scanned) THEN <<>>
    ELSE match_token(tokenizer.self, tokenizer.data, Scanned[k], <<>>).tokens
         \o MatchedTokens(k + 1)

\* C29: read_with_recovery reports exactly one error for each maximal run of
\* consecutive positions at which no token rule matches, at the first position of
\* the run, and emits the tokens of the positions where a rule matches; read returns
\* Ok with the same tokens when there is no such run and otherwise fails at the
\* position of the first reported error.
C29_OneErrorPerRun ==
    /\ tokenizer.read_with_recovery # NotCalled =>
          /\ tokenizer.read_with_recovery # Panicked
          /\ tokenizer.read_with_recovery.tokens = MatchedTokens(1)
          /\ [k \in DOMAIN tokenizer.read_with_recovery.errors |->
                 tokenizer.read_with_recovery.errors[k].position] = RunStarts(1)
    /\ tokenizer.read # NotCalled =>
          IF RunStarts(1) = <<>> THEN tokenizer.read = Success(MatchedTokens(1))
          ELSE /\ tokenizer.read # Panicked
               /\ ~tokenizer.read.ok
               /\ tokenizer.read.error.position = RunStarts(1)[1]

\* the bytes of the input are characters of one byte each
SingleBytes == \A k \in DOMAIN tokenizer.data : tokenizer.data[k] \notin {"C2", "AC", "B5"}

\* the statement of C29 on the inputs of one-byte characters, where it holds
C29_OneErrorPerRunOfSingleBytes == SingleBytes => C29_OneErrorPerRun


----------------------------------------------------------------------------
(* Properties of BitVector58 *)

\* get(index) of the word returns the value
GetReturns(word, index, value) ==
    BitVector58_get(bv.profile, word, index) = [panic |-> FALSE, value |-> value]

\* the word gives the length and the values of the other indices that `before` gave
OthersUnchanged(before, word, index) ==
    /\ BitVector58_len(word) = BitVector58_len(before)
    /\ \A j \in 0 .. (bv.created - 1) :
          j # index =>
              BitVector58_get(bv.profile, word, j) = BitVector58_get(bv.profile, before, j)

\* C30: for a BitVector58 created with empty(len), len <= 58, and every index < len,
\* set(index, value) makes get(index) == value, flip(index) negates get(index), and
\* both leave len() and get(j) for every j # index unchanged, up to index 57.
C30_SetAndFlipChangeOneBit ==
    (bv.call.op \in {"set", "flip"} /\ bv.call.index < bv.created) =>
        /\ ~bv.panicked
        /\ bv.call.op = "set" => GetReturns(bv.word, bv.call.index, bv.call.value)
        /\ bv.call.op = "flip" =>
              \E value \in BOOLEAN :
                  /\ GetReturns(bv.call.before, bv.call.index, value)
                  /\ GetReturns(bv.word, bv.call.index, ~value)
        /\ OthersUnchanged(bv.call.before, bv.word, bv.call.index)

\* the statement of C30 for the vectors of at most 31 entries, where it holds as
\* long as no call has been made with an index outside the vector
C30_ShortVectors ==
    (bv.created <= 31 /\ BitVector58_len(bv.call.before) = bv.created
        /\ bv.call.before \cap (31 .. 57) = {}) => C30_SetAndFlipChangeOneBit

----------------------------------------------------------------------------
(* Properties of the worker loop of the reachability engine *)

\* the workers that take the step from one statement to another
Stepping(from, to) ==
    {w \in DOMAIN threads : threads[w].pc = from /\ threads'[w].pc = to}

\* the successor cell of the edge worker w is processing
successor_of(w) == graph[threads[w].next][threads[w].edge][1]

\* C31: the update closure stores cell \cup transfer and reports changed = true
\* exactly when that union is not a subset of the previous value of the cell; the
\* worker enqueues the successor and sets work_in_progress exactly when changed is
\* true, and does neither when the cell did not change.
C31_ClosureReportsChange ==
    [][/\ \A w \in Stepping("closure", "release") :
              /\ items'[successor_of(w)] =
                    items[successor_of(w)] \cup threads[w].transfer_params
              /\ threads'[w].is_new <=>
                    ~(items'[successor_of(w)] \subseteq items[successor_of(w)])
       /\ \A w \in DOMAIN threads :
              threads[w].pc = "release" =>
                  /\ threads[w].is_new => threads'[w].pc = "changed"
                  /\ ~threads[w].is_new =>
                        /\ queue' = queue
                        /\ threads'[w].work_in_progress = threads[w].work_in_progress
       /\ \A w \in DOMAIN threads :
              (threads[w].pc = "changed" /\ threads'[w] # threads[w]) =>
                  /\ queue'[successor_of(w)]
                  /\ threads'[w].work_in_progress]_vars

\* the same statement for the implementation of ParamSet this repository has
C31_ClosureReportsChangeForBddParams ==
    [][paramset = "BddParams" =>
          \A w \in Stepping("closure", "release") :
              threads'[w].is_new <=>
                  ~(items'[successor_of(w)] \subseteq items[successor_of(w)])]_vars

\* worker w has polled state i and read labels[i] for its edge k, and the value it
\* read holds all of S
ReadsAtLeast(w, i, k, S) ==
    /\ threads[w].pc = "get_successor"
    /\ threads[w].next = i
    /\ threads[w].edge = k
    /\ (S \cap graph[i][k][2]) \subseteq threads[w].transfer_params

\* a cell that a closure made larger is reported as changed, which is what makes
\* the worker enqueue its state
GrowthIsReported ==
    [][\A w \in Stepping("closure", "release") :
          items'[successor_of(w)] # items[successor_of(w)] => threads'[w].is_new]_vars

\* a reported change, and a busy successor cell, lead to the queue bit being set
ReportIsEnqueued ==
    \A w \in 1 .. MaxWorkers, i \in States :
        /\ (w \in DOMAIN threads /\ threads[w].pc = "changed" /\ successor_of(w) = i)
              ~> queue[i]
        /\ (w \in DOMAIN threads /\ threads[w].pc = "busy" /\ threads[w].next = i)
              ~> queue[i]

\* an enqueued state is polled, and each of its edges is processed with a value of
\* its label at least as large as the label at the time of the enqueue
EnqueuedIsProcessed ==
    \A i \in States, k \in 1 .. NumVars, S \in SUBSET Params :
        (queue[i] /\ S \subseteq items[i])
            ~> (\E w \in DOMAIN threads : ReadsAtLeast(w, i, k, S))

\* C32: no propagation is lost to a stale read or a busy cell: whenever labels[i]
\* grows, or a worker processing i finds a successor cell busy, state i is
\* (re-)enqueued, and some worker subsequently polls i and processes all its edges
\* reading a value of labels[i] at least as large as the value at the time of that
\* enqueue.
C32_NoPropagationLost ==
    /\ GrowthIsReported
    /\ ReportIsEnqueued
    /\ EnqueuedIsProcessed

\* C33: with a single worker no call of labels.update returns None: every cell is
\* free while the calling thread initializes the array, and the worker never finds
\* the cell it is about to acquire busy, nor takes the None branch.
C33_SingleWorkerNeverBusy ==
    parallelism = 1 =>
        /\ main = "init" => \A s \in States : ~busy[s]
        /\ \A w \in DOMAIN threads :
              /\ threads[w].pc = "update" => ~busy[successor_of(w)]
              /\ threads[w].pc # "busy"

\* the single worker has acquired a cell that it had acquired and changed before
C33_Witness ==
    /\ parallelism = 1
    /\ \E w \in DOMAIN threads :
          /\ threads[w].pc = "closure"
          /\ items[successor_of(w)] # {}
          /\ busy[successor_of(w)]

\* every worker of the scope has been spawned and has left its loop
AllExited ==
    /\ Len(threads) = parallelism
    /\ \A w \in DOMAIN threads : threads[w].pc = "exit"

\* C34: workers decide to exit from local information only, yet once the last
\* worker has exited the global state is quiescent: no queue bit is set and no
\* busy flag of a cell is set, for every worker count and every interleaving.
C34_QuiescentAtExit ==
    AllExited => \A s \in States : ~queue[s] /\ ~busy[s]

\* two workers have exited after one of them made a cell larger than the caller
\* had stored it
C34_Witness ==
    /\ AllExited
    /\ parallelism = 2
    /\ main = "spawn"
    /\ \E s \in States : ~(items[s] \subseteq initial[s])

----------------------------------------------------------------------------
(* Properties of BooleanNetwork::add_update_function, continued *)

\* C35: a failed add_update_function call has no effect: whenever it returns an
\* error, for any cause, the parameter list, the parameter index and the update
\* functions of the network are exactly as before the call.
C35_FailedCallHasNoEffect ==
    [][(/\ bn # <<>>
        /\ last_call'.op = "add_update_function"
        /\ ~last_call'.ok)
           => (/\ bn'.parameters = bn.parameters
               /\ bn'.parameter_to_index = bn.parameter_to_index
               /\ bn'.update_functions = bn.update_functions)]_vars

\* the same statement for the errors found before the parameters are added
C35_EarlyErrorsHaveNoEffect ==
    [][(/\ bn # <<>>
        /\ last_call'.op = "add_update_function"
        /\ ~last_call'.ok
        /\ last_call'.error # "Unknown variable in parameter")
           => bn' = bn]_vars

----------------------------------------------------------------------------
(* Properties of the edge iterators *)

Directions == {"fwd", "bwd"}

\* t is s XOR (1 << v): the two states differ in bit v and in no other bit
DiffersInBit(s, t, v) ==
    /\ t \in States
    /\ \A b \in Vars : is_set(t, b) <=> (is_set(s, b) # (b = v))

\* the items yielded so far are those of the variables 0, 1, .. in this order
YieldedInOrder(dir) ==
    iterators[dir] # <<>> =>
        /\ Len(iterators[dir].yielded) = iterators[dir].variables
        /\ Len(iterators[dir].yielded) <= network.num_vars
        /\ \A v \in 1 .. Len(iterators[dir].yielded) :
              DiffersInBit(iterators[dir].state, iterators[dir].yielded[v].state, v - 1)

\* next returns None only after the item of every variable
NoneAfterEveryVariable(dir) ==
    (iterators[dir] # <<>> /\ iterators'[dir] = <<>>) =>
        Len(iterators[dir].yielded) = network.num_vars

\* an iterator that does not continue the sequence of the step before it is a new
\* iterator of step(s): it starts with the first variable, on the same graph, and
\* the items of an iterator that continues are kept
StepStartsAgain(dir) ==
    /\ async_graph' = async_graph
    /\ iterators'[dir] # <<>> =>
          \/ iterators'[dir].variables = 0 /\ iterators'[dir].yielded = <<>>
          \/ /\ iterators[dir] # <<>>
             /\ iterators'[dir].state = iterators[dir].state
             /\ Len(iterators'[dir].yielded) <= Len(iterators[dir].yielded) + 1
             /\ SubSeq(iterators'[dir].yielded, 1, Len(iterators[dir].yielded))
                   = iterators[dir].yielded

\* C36: for a graph with n variables and any state s, each iterator returned by
\* fwd().step(s) or bwd().step(s) yields exactly n items and then None, in ascending
\* variable order: the item at position v has the state s XOR (1 << v); calling
\* step(s) again starts the same sequence from its first item.
C36_IteratorsYieldEveryFlipInOrder ==
    /\ [](\A dir \in Directions : YieldedInOrder(dir))
    /\ [][\A dir \in Directions :
             NoneAfterEveryVariable(dir) /\ StepStartsAgain(dir)]_vars

\* step(s) forward has yielded the item of every variable, and step(s) backward
\* has been called for the same state and has yielded nothing yet
C36_Witness ==
    /\ Exhausted("fwd")
    /\ Len(iterators.fwd.yielded) = NumVars
    /\ iterators.bwd # <<>>
    /\ iterators.bwd.state = iterators.fwd.state
    /\ iterators.bwd.yielded = <<>>

----------------------------------------------------------------------------
(* Properties of TokenTreeBuilder::group_tokens_with_recovery *)

\* the opening and the closing tokens of the three groups of the builder
OpeningData == {"(", "[", "{"}

ClosingData == {")", "]", "}"}

TokensWith(tokens, data) == {tokens[k] : k \in {j \in DOMAIN tokens : tokens[j].data \in data}}

\* the groups of a forest, at every depth
RECURSIVE GroupsOf(_)
GroupsOf(forest) ==
    UNION {IF forest[k].tree = "Group"
           THEN {forest[k]} \cup GroupsOf(forest[k].data)
           ELSE {} : k \in DOMAIN forest}

\* the number of group nodes of a forest, at every depth
RECURSIVE CountGroups(_, _)
CountGroups(forest, k) ==
    IF k > Len(forest) THEN 0
    ELSE (IF forest[k].tree = "Group" THEN 1 + CountGroups(forest[k].data, 1) ELSE 0)
             + CountGroups(forest, k + 1)

\* the tokens that are values of a forest, at every depth
RECURSIVE ValuesOf(_)
ValuesOf(forest) ==
    UNION {IF forest[k].tree = "Group" THEN ValuesOf(forest[k].data)
           ELSE {forest[k].token} : k \in DOMAIN forest}

\* the positions of the errors that say the group opened at `starts_at` is unclosed
UnclosedErrors(errors, starts_at) ==
    {k \in DOMAIN errors : errors[k].starts_at = Just(starts_at)}

\* the positions of the errors that say the token at `ends_at` closes nothing
UnexpectedErrors(errors, ends_at) ==
    {k \in DOMAIN errors : errors[k].starts_at = Nothing /\ errors[k].ends_at = Just(ends_at)}

\* the groups strictly inside the group
Inside(group) == GroupsOf(group.data)

\* the sequence without the tokens of the set
RECURSIVE Without(_, _)
Without(tokens, dropped) ==
    IF tokens = <<>> THEN <<>>
    ELSE (IF Head(tokens) \in dropped THEN <<>> ELSE <<Head(tokens)>>)
             \o Without(Tail(tokens), dropped)

\* C37: in group_tokens_with_recovery each opening token yields exactly one group;
\* a group is emitted as unclosed with exactly one error, and a closed group with
\* none; a closing token that closes a deeper open group closes that group, and
\* every group opened after it is emitted inside it as unclosed, its error ending at
\* this token; a group still open at the end of the input is emitted as unclosed,
\* its error without an end; a closing token that closes no open group yields
\* exactly one error and leaves the forest as it is without this token.
C37_RecoveryEmitsEveryGroupOnce ==
    token_tree_builder.recovered # NotCalled =>
        LET tokens == token_tree_builder.tokens
            forest == token_tree_builder.recovered.forest
            errors == token_tree_builder.recovered.errors
            groups == GroupsOf(forest)
            unclosed == {g \in groups : g.close = Nothing}
            stray == {t \in TokensWith(tokens, ClosingData) :
                         \A g \in groups : g.close # Just(t)}
        IN  /\ CountGroups(forest, 1) = Cardinality(TokensWith(tokens, OpeningData))
            /\ {g.open : g \in groups} = TokensWith(tokens, OpeningData)
            /\ ValuesOf(forest) = TokensWith(tokens, {"x"})
            /\ Len(errors) = Cardinality(unclosed) + Cardinality(stray)
            /\ \A g \in groups :
                  Cardinality(UnclosedErrors(errors, g.open.starts_at))
                      = IF g \in unclosed THEN 1 ELSE 0
            /\ \A t \in TokensWith(tokens, ClosingData) :
                  /\ Cardinality({g \in groups : g.close = Just(t)})
                        = IF t \in stray THEN 0 ELSE 1
                  /\ Cardinality(UnexpectedErrors(errors, t.starts_at))
                        = IF t \in stray THEN 1 ELSE 0
            /\ \A g \in unclosed :
                  \A k \in UnclosedErrors(errors, g.open.starts_at) :
                      IF errors[k].ends_at = Nothing
                      THEN \A outer \in groups : g \in Inside(outer) => outer \in unclosed
                      ELSE \E outer \in groups :
                              /\ outer.close # Nothing
                              /\ outer.close.value.starts_at = errors[k].ends_at.value
                              /\ g \in Inside(outer)
                              /\ \A h \in Inside(outer) : g \in Inside(h) => h \in unclosed
            /\ forest = group_tokens_with_recovery(builder, Without(tokens, stray)).forest

\* the recovery has returned for `{[(]`: the `]` closes the brackets, the
\* parenthesis opened after them is emitted inside them as unclosed, and the block
\* is still open at the end of the input
C37_Witness ==
    /\ token_tree_builder.recovered # NotCalled
    /\ Len(token_tree_builder.tokens) = 4
    /\ [k \in 1 .. 4 |-> token_tree_builder.tokens[k].data] = <<"{", "[", "(", "]">>
    /\ Len(token_tree_builder.recovered.errors) = 2
    /\ Len(token_tree_builder.recovered.forest) = 1
    /\ token_tree_builder.recovered.forest[1].close = Nothing
    /\ token_tree_builder.recovered.forest[1].data[1].close = Just(TextToken(3, "]"))
    /\ token_tree_builder.recovered.forest[1].data[1].data[1].close = Nothing

----------------------------------------------------------------------------
(* Properties of RecursiveGroupTokenMatcher *)

\* the length of the stack of the state; None has no stack
StackLength == IF matcher.state.some THEN Len(matcher.state.value) ELSE 0

\* C38: after any sequence of scan_token calls from clean_state, the state is either
\* None or a non-empty stack; the length of the stack is the number of matched
\* opening tokens minus the number of matched closing tokens, and the state is None
\* exactly when that difference is zero.
C38_StackCountsOpenGroups ==
    /\ matcher.state.some => Len(matcher.state.value) >= 1
    /\ StackLength = matcher.opened - matcher.closed
    /\ ~matcher.state.some <=> matcher.opened - matcher.closed = 0

\* as in test_recursive_group_token_matcher: two nested comments have been opened and
\* the last call has closed the inner one
C38_Witness ==
    /\ matcher.m.open.value = <<"/", "*">>
    /\ matcher.m.close.value = <<"*", "/">>
    /\ matcher.opened = 2
    /\ matcher.closed = 1
    /\ Named(matcher.payload, "block-close")
    /\ matcher.state = Just(<<Unit>>)

============================================================================
